---- MODULE Spec2Model ----
(***************************************************************************)
(* Batch orchestration and result correlation of the Auto-Description      *)
(* service (src/tasks.py), and its admission limiter                       *)
(* (src/jobs/batch_tracker.py).                                            *)
(*                                                                         *)
(* Three specifications share the module:                                  *)
(*   Spec               the Celery pipeline of src/tasks.py                *)
(*   SpecLimiter        ActiveBatchLimiter, one call at a time             *)
(*   SpecLimiterThreads ActiveBatchLimiter called from concurrent threads  *)
(***************************************************************************)
EXTENDS Integers, Sequences, FiniteSets, TLC

VARIABLES
    settings,       \* config.Settings(): the limits read from the environment
    global_set,     \* ActiveBatchLimiter._global
    by_key,         \* ActiveBatchLimiter._by_key (a defaultdict: entries appear on access)
    reply,          \* outcome of the last completed limiter call
    hist,           \* history of the calls of SpecLimiter (see NoHist)
    thr,            \* per thread: where it stands inside register / finish
    vision_pending_queue,     \* redis list VISION_PENDING_QUEUE
    translate_pending_queue,  \* redis list TRANSLATE_PENDING_QUEUE
    active_batch_count,       \* redis counter ACTIVE_BATCH_COUNT
    batch_to_custom_ids,      \* redis keys BATCH_TO_CUSTOM_IDS:<batch_id>
    results,                  \* redis keys result:<lot_id>:<lang>
    dynamic_batch_interval,   \* redis key DYNAMIC_BATCH_INTERVAL_KEY
    dynamic_batch_last_run,   \* redis key DYNAMIC_BATCH_KEY: "unset", or "set" to a time
    service,        \* the bulk jobs as the external service holds them
    workers,        \* orchestrator runs suspended in `await start_batch`
    handlers,       \* handle_completed_batch tasks: scheduled, and suspended in an await
    posted,         \* post_webhook_task.delay calls so far: a bag of [url, data]
    accepted,       \* lot ids pushed to the analysis queue so far
    dropped,        \* lot ids with a line in a job whose key a failed poll deleted
    lost,           \* lot ids with a task that was drained for a start_batch that raised
    cadence,        \* one evaluation of _calculate_dynamic_interval: depth and result
    clock,          \* time.time() and the value stored under DYNAMIC_BATCH_KEY
    delivery,       \* one call of delivery.post_webhook
    submission,     \* one call of openai_client.start_batch
    correlation     \* one translation custom_id: built at fan-out, split on completion

limiterVars == <<global_set, by_key, reply, hist, thr>>

pipelineVars ==
    <<vision_pending_queue, translate_pending_queue, active_batch_count,
      batch_to_custom_ids, results, dynamic_batch_interval, dynamic_batch_last_run,
      service, workers, handlers, posted, accepted, dropped, lost>>

unitVars == <<cadence, clock, delivery, submission, correlation>>

vars == <<settings, limiterVars, pipelineVars, unitVars>>

----------------------------------------------------------------------------
(* Configurations. Settings are read from the environment                  *)
(* (pydantic BaseSettings), so a deployment is one choice of limits.       *)

LimiterSettings ==
    { [active_batch_limit |-> 2, per_key_batch_limit |-> 1, max_lines_per_batch |-> 2],
      [active_batch_limit |-> 3, per_key_batch_limit |-> 2, max_lines_per_batch |-> 2] }

----------------------------------------------------------------------------
(* The pipeline of src/tasks.py                                            *)
(*                                                                         *)
(* Strings that the code builds and splits on ":" are modelled as the      *)
(* sequence of their ":"-separated parts: lot id "A" is <<"A">>, the        *)
(* translation custom_id "tr:A:fr" is <<"tr", "A", "fr">>, the key          *)
(* "result:A:fr" is <<"result", "A", "fr">>.                                *)

PipelineSettings ==
    { [active_batch_limit |-> 1, per_key_batch_limit |-> 2, max_lines_per_batch |-> 2] }

Lots == {<<"A">>, <<"B">>}

\* req.languages of the request each lot comes from
RequestedLanguages(lot_id) == IF lot_id = <<"A">> THEN <<"en", "fr", "de">> ELSE <<"en", "de">>

Workers == {"w1", "w2"}
MaxBatches == 3
MaxDuplicates == 1
Batches == 1..MaxBatches

TerminalStatuses == {"completed", "failed", "expired", "cancelled"}

Range(seq) == {seq[i] : i \in DOMAIN seq}

\* lot_data built by generate_descriptions for a multi-lot request
LotData(lot_id, languages) ==
    [lot_id |-> lot_id, webhook |-> <<"https", "caller">> \o lot_id, languages |-> languages]

\* dict.get(name, default)
Get(dict, name, default) == IF name \in DOMAIN dict THEN dict[name] ELSE default

EmptyDict == <<>>

\* what the service answers for one line (utils.parse_response_output of its body)
Html(lot_id) == <<"html_en">> \o lot_id
Translated(text, lang) == <<lang>> \o text

ResultKey(lot_id, lang) == <<"result">> \o lot_id \o <<lang>>

\* redis set(key, value): the key is stored without an expiry (ttl -1)
Set(store, key, time, value) ==
    [k \in DOMAIN store \cup {key} |->
        IF k = key THEN [value |-> value, ttl |-> -1] ELSE store[k]]

\* redis setex(key, time, value)
Setex(store, key, time, value) ==
    [k \in DOMAIN store \cup {key} |->
        IF k = key THEN [value |-> value, ttl |-> time] ELSE store[k]]

\* redis mget: the values of the keys, None for a missing key
AllPresent(store, lot_id, languages) ==
    \A i \in DOMAIN languages : ResultKey(lot_id, languages[i]) \in DOMAIN store

\* signature.calc_signature: a keyed digest, a function of the lots alone
calc_signature(lots) == <<"hmac_sha256", lots>>

\* post_webhook_task.delay(url, data): one more delivery handed to Callback Delivery
Delay(bag, url, data) ==
    LET call == [url |-> url, data |-> data]
    IN IF call \in DOMAIN bag THEN [bag EXCEPT ![call] = @ + 1] ELSE bag @@ (call :> 1)

\* a success payload signed before its descriptions are filled in
SuccessPayload_early(lot_id, store, languages) ==
    LET descriptions == [i \in DOMAIN languages |->
                            [language |-> languages[i],
                             damages |-> store[ResultKey(lot_id, languages[i])].value]]
        response_lots == <<[lot_id |-> lot_id, descriptions |-> descriptions]>>
    IN [signature |-> calc_signature(<<[lot_id |-> lot_id, descriptions |-> <<>>]>>),
        version |-> "1.0.0", lots |-> response_lots]

\* LotOut / ResponseOut of schemas.py, model_dump()
SuccessPayload(lot_id, store, languages) ==
    LET descriptions == [i \in DOMAIN languages |->
                            [language |-> languages[i],
                             damages |-> store[ResultKey(lot_id, languages[i])].value]]
        response_lots == <<[lot_id |-> lot_id, descriptions |-> descriptions]>>
    IN [signature |-> calc_signature(response_lots), version |-> "1.0.0",
        lots |-> response_lots]

\* the error_response of lines 149-157
ErrorPayload(custom_id, message) ==
    LET lots == <<[lot_id |-> custom_id,
                   error |-> [message |-> message, code |-> "processing_failed"]]>>
    IN [lots |-> lots, version |-> "1.0.0", signature |-> calc_signature(lots)]

\* [lang for lang in languages if lang not in immediate_languages]
Without(languages, excluded) == SelectSeq(languages, LAMBDA l : l \notin Range(excluded))

\* the analysis queue served before the translation queue
QueueToProcess_vision(translate_queue_depth, vision_queue_depth) ==
    IF vision_queue_depth > 0 THEN "vision" ELSE "translate"

\* orchestrator_task: "Prioritize translate queue for faster completion"; with both
\* queues empty the run has returned before this is used
QueueToProcess(translate_queue_depth, vision_queue_depth) ==
    IF translate_queue_depth > 0 THEN "translate" ELSE "vision"

\* the throttle test keeping a tick back at the interval itself
Throttled_le(elapsed, dynamic_interval) == elapsed <= dynamic_interval

\* orchestrator_task: if current_time - last_run < dynamic_interval: return
Throttled(elapsed, dynamic_interval) == elapsed < dynamic_interval

\* _calculate_dynamic_interval with the thresholds in the higher-load tier
CalculateDynamicInterval_ge(queue_depth) ==
    IF queue_depth >= 1000 THEN 5
    ELSE IF queue_depth >= 100 THEN 10
    ELSE 30

\* _calculate_dynamic_interval
CalculateDynamicInterval(queue_depth) ==
    IF queue_depth > 1000 THEN 5
    ELSE IF queue_depth > 100 THEN 10
    ELSE 30

\* _check_and_send_webhook_if_ready: st is [results, translate_queue, posted]
CheckAndSendWebhookIfReady(st, lot_id, original_lot) ==
    LET languages == Get(original_lot, "languages", <<>>)
        immediate_languages == Get(original_lot, "immediate_languages", <<>>)
        remaining_languages == Without(languages, immediate_languages)
        languages_to_check ==
            IF immediate_languages # <<>> THEN remaining_languages ELSE languages
    IN IF languages_to_check = <<>> THEN st
       ELSE IF AllPresent(st.results, lot_id, languages_to_check)
       THEN [st EXCEPT !.posted =
                Delay(@, original_lot.webhook,
                      SuccessPayload(lot_id, st.results, languages_to_check))]
       ELSE st

\* _send_batch_webhook
SendBatchWebhook(st, lot_id, original_lot, batch_languages) ==
    LET immediate_languages == Get(original_lot, "immediate_languages", <<>>)
        filtered_languages == Without(batch_languages, immediate_languages)
    IN IF filtered_languages = <<>> THEN st
       ELSE IF AllPresent(st.results, lot_id, filtered_languages)
       THEN [st EXCEPT !.posted =
                Delay(@, original_lot.webhook,
                      SuccessPayload(lot_id, st.results, filtered_languages))]
       ELSE st

FanOutLanguages_all(languages) == languages

\* lines 114-115: for lang in languages: if lang != 'en'
FanOutLanguages(languages) == SelectSeq(languages, LAMBDA l : l # "en")

\* line 116: the translation task of one language
TranslateTask(lot_id, lang, html_en, original_lot) ==
    [custom_id |-> <<"tr">> \o lot_id \o <<lang>>, text |-> html_en, lang |-> lang,
     original_lot |-> original_lot]

\* lines 110-118: the successful lines of a vision job, in the order of the file
RECURSIVE VisionResults(_, _, _)
VisionResults(st, lot_ids, custom_id_map) ==
    IF lot_ids = <<>> THEN st
    ELSE LET lot_id == Head(lot_ids)
             html_en == Html(lot_id)
             original_lot == Get(custom_id_map, lot_id, EmptyDict)
             langs == FanOutLanguages(Get(original_lot, "languages", <<>>))
             stored == [st EXCEPT
                 !.results = Setex(@, ResultKey(lot_id, "en"), 172800, html_en),
                 !.translate_queue = @ \o
                     [i \in DOMAIN langs |->
                         TranslateTask(lot_id, langs[i], html_en, original_lot)]]
         IN VisionResults(CheckAndSendWebhookIfReady(stored, lot_id, original_lot),
                          Tail(lot_ids), custom_id_map)

\* _, lot_id, lang = custom_id.split(":") unpacks three parts and raises ValueError
\* on any other number of them
Unpacks(custom_id) == Len(custom_id) = 3

\* lines 122-129: store every translation, collect the languages of each lot;
\* acc is <<st, lot_results>>, lot_results a sequence in first-seen order; the loop
\* ends at a custom_id that does not unpack, with the exception raised
RECURSIVE TranslateStore(_, _, _, _)
TranslateStore(st, lot_results, custom_ids, custom_id_map) ==
    IF custom_ids = <<>> THEN <<st, lot_results>>
    ELSE IF ~Unpacks(Head(custom_ids)) THEN <<[st EXCEPT !.raised = TRUE], lot_results>>
    ELSE LET custom_id == Head(custom_ids)
             lot_id == <<custom_id[2]>>
             lang == custom_id[3]
             task == custom_id_map[custom_id]
             stored == [st EXCEPT !.results =
                            Setex(@, ResultKey(lot_id, lang), 172800,
                                  Translated(task.text, lang))]
             seen == {i \in DOMAIN lot_results : lot_results[i].lot_id = lot_id}
             collected ==
                 IF seen = {}
                 THEN Append(lot_results, [lot_id |-> lot_id, languages |-> <<lang>>,
                                           original_lot |-> task.original_lot])
                 ELSE [i \in DOMAIN lot_results |->
                         IF i \in seen
                         THEN [lot_results[i] EXCEPT !.languages = Append(@, lang)]
                         ELSE lot_results[i]]
         IN TranslateStore(stored, collected, Tail(custom_ids), custom_id_map)

\* lines 132-133
RECURSIVE TranslateWebhooks(_, _)
TranslateWebhooks(st, lot_results) ==
    IF lot_results = <<>> THEN st
    ELSE TranslateWebhooks(
            SendBatchWebhook(st, Head(lot_results).lot_id, Head(lot_results).original_lot,
                             Head(lot_results).languages),
            Tail(lot_results))

\* a handler that does not read the error file
ErrorLines_unread(st, custom_ids, custom_id_map) == st

\* lines 139-158: one error callback per line of the error file whose custom_id
\* is in the map and whose map entry has a 'webhook'
RECURSIVE ErrorLines(_, _, _)
ErrorLines(st, custom_ids, custom_id_map) ==
    IF custom_ids = <<>> THEN st
    ELSE LET custom_id == Head(custom_ids)
             original_lot == Get(custom_id_map, custom_id, EmptyDict)
             next ==
                 IF original_lot = EmptyDict \/ "webhook" \notin DOMAIN original_lot
                 THEN st
                 ELSE [st EXCEPT !.posted =
                         Delay(@, original_lot.webhook,
                               ErrorPayload(custom_id, "Unknown processing error"))]
         IN ErrorLines(next, Tail(custom_ids), custom_id_map)

\* lines 104-158: both output files of a finished job; an exception raised on a
\* line of the output file leaves the function there
ProcessOutputs(st, job_type, custom_id_map, batch) ==
    LET ok_ids == SelectSeq(batch.lines, LAMBDA c : c \in batch.ok)
        bad_ids == SelectSeq(batch.lines, LAMBDA c : c \in batch.bad)
        after_ok ==
            IF ok_ids = <<>> THEN st
            ELSE IF job_type = "vision" THEN VisionResults(st, ok_ids, custom_id_map)
            ELSE LET acc == TranslateStore(st, <<>>, ok_ids, custom_id_map)
                 IN IF acc[1].raised THEN acc[1] ELSE TranslateWebhooks(acc[1], acc[2])
    IN IF after_ok.raised THEN after_ok ELSE ErrorLines(after_ok, bad_ids, custom_id_map)

\* a job the program no longer asks the service about: its key is deleted and no
\* handler holds its map
Closed(batch) == [status |-> "closed", job_type |-> batch.job_type, lines |-> <<>>,
                  ok |-> {}, bad |-> {}]

NoKey == [job_type |-> "none", custom_id_map |-> EmptyDict]
NoBatch == [status |-> "none", job_type |-> "none", lines |-> <<>>, ok |-> {}, bad |-> {}]
WorkerIdle == [pc |-> "idle", job_type |-> "none", lines |-> <<>>, custom_id_map |-> EmptyDict]
NoHandler == [tasks |-> 0, scheduled |-> 0, running |-> 0, redis_data |-> NoKey]

PipelineEmpty ==
    /\ vision_pending_queue = <<>>
    /\ translate_pending_queue = <<>>
    /\ active_batch_count = 0
    /\ batch_to_custom_ids = [b \in Batches |-> NoKey]
    /\ results = <<>>
    /\ dynamic_batch_interval = 0
    /\ dynamic_batch_last_run = "unset"
    /\ service = [b \in Batches |-> NoBatch]
    /\ workers = [w \in Workers |-> WorkerIdle]
    /\ handlers = [b \in Batches |-> NoHandler]
    /\ posted = <<>>
    /\ accepted = {}
    /\ dropped = {}
    /\ lost = {}

\* time.time() when the service starts: more than any interval after time 0
Epoch == 300

\* no function of the single-call specifications has been called
UnitsEmpty ==
    /\ cadence = [queue_depth |-> 0, interval |-> 0]
    /\ clock = [now |-> Epoch, last_run |-> 0]
    /\ delivery = [pc |-> "none"]
    /\ submission = [pc |-> "none"]
    /\ correlation = [pc |-> "none"]

LimiterEmpty ==
    /\ global_set = {}
    /\ by_key = <<>>
    /\ reply = [op |-> "none", status |-> 0, detail |-> "", retry_after |-> ""]
    /\ hist = [freed |-> {}, readmitted |-> FALSE, absent_finish |-> FALSE]
    /\ thr = [t \in {"t1", "t2"} |-> [pc |-> "idle"]]

\* test_dynamic_batching.push_to_queue, the helper submit_lots_for_processing calls:
\* redis rpush(queue_name, json.dumps(data))
push_to_queue(queue, data) == Append(queue, data)

RECURSIVE PushAll(_, _)
PushAll(queue, lots) ==
    IF lots = <<>> THEN queue ELSE PushAll(push_to_queue(queue, Head(lots)), Tail(lots))

\* submit_lots_for_processing(lots), lots being the lot_data of generate_descriptions
SubmitLotsForProcessing(lot_ids) ==
    /\ Cardinality(Range(lot_ids)) = Len(lot_ids)
    /\ Range(lot_ids) \cap accepted = {}
    /\ vision_pending_queue' =
          PushAll(vision_pending_queue,
                  [i \in DOMAIN lot_ids |->
                      LotData(lot_ids[i], RequestedLanguages(lot_ids[i]))])
    /\ accepted' = accepted \cup Range(lot_ids)
    /\ UNCHANGED <<translate_pending_queue, active_batch_count, batch_to_custom_ids,
                   results, dynamic_batch_interval, dynamic_batch_last_run, service,
                   workers, handlers, posted, dropped, lost>>
    /\ UNCHANGED <<settings, limiterVars, unitVars>>

Min(a, b) == IF a < b THEN a ELSE b

\* the custom_id of a drained task: lot_id for vision, custom_id for translate
CustomIdOf(job_type, task) == IF job_type = "vision" THEN task.lot_id ELSE task.custom_id

\* custom_id_map[...] = task, a later task replacing an earlier one of the same id
MapOf(job_type, tasks) ==
    LET ids == {CustomIdOf(job_type, tasks[i]) : i \in DOMAIN tasks}
        last(c) == CHOOSE i \in DOMAIN tasks :
                      /\ CustomIdOf(job_type, tasks[i]) = c
                      /\ \A j \in DOMAIN tasks :
                            CustomIdOf(job_type, tasks[j]) = c => j <= i
    IN [c \in ids |-> tasks[last(c)]]

SubmittedJobs == {b \in Batches : service[b].status # "none"}

\* orchestrator_task with _process_queue_async up to its `await start_batch`
\* since_write: the seconds since DYNAMIC_BATCH_KEY was written, if it is there
OrchestratorRun(w, since_write) ==
    /\ workers[w].pc = "idle"
    /\ Cardinality(SubmittedJobs)
         + Cardinality({v \in Workers : workers[v].pc = "start_batch"}) < MaxBatches
    /\ LET translate_queue_depth == Len(translate_pending_queue)
           vision_queue_depth == Len(vision_pending_queue)
           total_queue_depth == translate_queue_depth + vision_queue_depth
           dynamic_interval == CalculateDynamicInterval(total_queue_depth)
           \* last_run = 0 when the key is absent: current_time - 0 exceeds any interval
           elapsed == IF dynamic_batch_last_run = "unset" THEN 31 ELSE since_write
           job_type == QueueToProcess(translate_queue_depth, vision_queue_depth)
           queue == IF job_type = "translate" THEN translate_pending_queue
                    ELSE vision_pending_queue
           n == Min(Len(queue), settings.max_lines_per_batch)
           tasks == SubSeq(queue, 1, n)
           rest == SubSeq(queue, n + 1, Len(queue))
       IN /\ dynamic_batch_interval' = dynamic_interval
          /\ IF Throttled(elapsed, dynamic_interval)
             THEN UNCHANGED <<dynamic_batch_last_run, vision_pending_queue,
                              translate_pending_queue, workers>>
             ELSE /\ dynamic_batch_last_run' = "set"
                  /\ IF \/ active_batch_count >= settings.active_batch_limit
                        \/ total_queue_depth = 0
                     THEN UNCHANGED <<vision_pending_queue, translate_pending_queue,
                                      workers>>
                     ELSE /\ IF job_type = "translate"
                             THEN /\ translate_pending_queue' = rest
                                  /\ UNCHANGED vision_pending_queue
                             ELSE /\ vision_pending_queue' = rest
                                  /\ UNCHANGED translate_pending_queue
                          /\ workers' = [workers EXCEPT ![w] =
                               [pc |-> "start_batch", job_type |-> job_type,
                                lines |-> [i \in DOMAIN tasks |->
                                              CustomIdOf(job_type, tasks[i])],
                                custom_id_map |-> MapOf(job_type, tasks)]]
    /\ UNCHANGED <<active_batch_count, batch_to_custom_ids, results, service, handlers,
                   posted, accepted, dropped, lost>>

\* an orchestrator run that finds since_write seconds passed since the last dispatch
OrchestratorTask(w, since_write) ==
    /\ OrchestratorRun(w, since_write)
    /\ UNCHANGED <<settings, limiterVars, unitVars>>

\* start_batch returns a batch id; lines 57-64 count the job and store its map
StartBatch(w) ==
    /\ workers[w].pc = "start_batch"
    /\ \E batch_id \in Batches :
        /\ service[batch_id].status = "none"
        /\ \A b \in Batches : b < batch_id => service[b].status # "none"
        /\ service' = [service EXCEPT ![batch_id] =
              [status |-> "in_progress", job_type |-> workers[w].job_type,
               lines |-> workers[w].lines, ok |-> {}, bad |-> {}]]
        /\ batch_to_custom_ids' = [batch_to_custom_ids EXCEPT ![batch_id] =
              [job_type |-> workers[w].job_type,
               custom_id_map |-> workers[w].custom_id_map]]
    /\ active_batch_count' = active_batch_count + 1
    /\ workers' = [workers EXCEPT ![w] = WorkerIdle]
    /\ UNCHANGED <<vision_pending_queue, translate_pending_queue, results,
                   dynamic_batch_interval, dynamic_batch_last_run, handlers, posted,
                   accepted, dropped, lost>>
    /\ UNCHANGED <<settings, limiterVars, unitVars>>

\* a submission that counts the job before start_batch is awaited, so that a
\* failed submission stays counted
StartBatchRaises_counted(w) ==
    /\ workers[w].pc = "start_batch"
    /\ workers' = [workers EXCEPT ![w] = WorkerIdle]
    /\ active_batch_count' = active_batch_count + 1
    /\ lost' = lost \cup {IF workers[w].job_type = "vision" THEN c ELSE <<c[2]>> :
                             c \in Range(workers[w].lines)}
    /\ UNCHANGED <<vision_pending_queue, translate_pending_queue,
                   batch_to_custom_ids, results, dynamic_batch_interval,
                   dynamic_batch_last_run, service, handlers, posted, accepted,
                   dropped>>
    /\ UNCHANGED <<settings, limiterVars, unitVars>>

\* start_batch raises (assert_batch_limits, upload or job creation): the exception
\* leaves _process_queue_async, the drained tasks are gone
StartBatchRaises(w) ==
    /\ workers[w].pc = "start_batch"
    /\ workers' = [workers EXCEPT ![w] = WorkerIdle]
    /\ lost' = lost \cup {IF workers[w].job_type = "vision" THEN c ELSE <<c[2]>> :
                             c \in Range(workers[w].lines)}
    /\ UNCHANGED <<vision_pending_queue, translate_pending_queue, active_batch_count,
                   batch_to_custom_ids, results, dynamic_batch_interval,
                   dynamic_batch_last_run, service, handlers, posted, accepted,
                   dropped>>
    /\ UNCHANGED <<settings, limiterVars, unitVars>>

\* The external service ends a job. completed: every line is in the output or the
\* error file; failed: the job was refused, there is neither file; expired and
\* cancelled: only some of the lines ran and are in one of the files. The code
\* never branches on which terminal status it is, so an expired or cancelled job
\* whose files look like those of a completed or failed one is covered by these.
\* (The end of a job whose key is gone is never observed, and is left out.)
ServiceEndsJob(b, status, ok, bad) ==
    /\ service[b].status = "in_progress"
    /\ batch_to_custom_ids[b] # NoKey
    /\ ok \cap bad = {}
    /\ status = "completed" => ok \cup bad = Range(service[b].lines)
    /\ status = "failed" => ok \cup bad = {}
    /\ status \in {"expired", "cancelled"} =>
          (ok \cup bad # {} /\ ok \cup bad # Range(service[b].lines))
    /\ service' = [service EXCEPT ![b].status = status, ![b].ok = ok, ![b].bad = bad]
    /\ UNCHANGED <<vision_pending_queue, translate_pending_queue, active_batch_count,
                   batch_to_custom_ids, results, dynamic_batch_interval,
                   dynamic_batch_last_run, workers, handlers, posted, accepted,
                   dropped, lost>>
    /\ UNCHANGED <<settings, limiterVars, unitVars>>

\* the lot ids with a line in job b
LotsOf(b) ==
    {IF service[b].job_type = "vision" THEN c ELSE <<c[2]>> : c \in Range(service[b].lines)}

\* the handle_completed_batch tasks queued beyond the first one of their job,
\* once one more is queued for each job of `more`
Duplicates(hs, more) ==
    LET Tasks(b) == hs[b].tasks + (IF b \in more THEN 1 ELSE 0)
        Extra(b) == IF Tasks(b) > 1 THEN Tasks(b) - 1 ELSE 0
        Sum[n \in 0..MaxBatches] == IF n = 0 THEN 0 ELSE Sum[n - 1] + Extra(n)
    IN Sum[MaxBatches]

\* a poller whose gather lets the first exception through: the keys of the failing
\* jobs go, and a run in which a poll raised schedules nothing
CheckBatchStatus_stalls(failing) ==
    LET active_batch_ids == {b \in Batches : batch_to_custom_ids[b] # NoKey}
        terminal == {b \in active_batch_ids \ failing :
                        failing = {} /\ service[b].status \in TerminalStatuses}
    IN /\ failing \subseteq active_batch_ids
       /\ Duplicates(handlers, terminal) <= MaxDuplicates
       /\ batch_to_custom_ids' =
             [b \in Batches |-> IF b \in failing THEN NoKey ELSE batch_to_custom_ids[b]]
       /\ handlers' = [b \in Batches |->
             IF b \in terminal
             THEN [handlers[b] EXCEPT !.tasks = @ + 1, !.scheduled = @ + 1]
             ELSE handlers[b]]
       /\ dropped' = dropped \cup UNION {LotsOf(b) : b \in failing}
       /\ UNCHANGED <<vision_pending_queue, translate_pending_queue,
                      active_batch_count, results, dynamic_batch_interval,
                      dynamic_batch_last_run, service, workers, posted, accepted, lost>>
       /\ UNCHANGED <<settings, limiterVars, unitVars>>

\* _check_batch_status_async: retrieve_batch raises for the jobs in `failing`
CheckBatchStatus(failing) ==
    LET active_batch_ids == {b \in Batches : batch_to_custom_ids[b] # NoKey}
        terminal == {b \in active_batch_ids \ failing :
                        service[b].status \in TerminalStatuses}
    IN /\ failing \subseteq active_batch_ids
       /\ Duplicates(handlers, terminal) <= MaxDuplicates
       /\ batch_to_custom_ids' =
             [b \in Batches |-> IF b \in failing THEN NoKey ELSE batch_to_custom_ids[b]]
       /\ handlers' = [b \in Batches |->
             IF b \in terminal
             THEN [handlers[b] EXCEPT !.tasks = @ + 1, !.scheduled = @ + 1]
             ELSE handlers[b]]
       /\ dropped' = dropped \cup UNION {LotsOf(b) : b \in failing}
       /\ UNCHANGED <<vision_pending_queue, translate_pending_queue,
                      active_batch_count, results, dynamic_batch_interval,
                      dynamic_batch_last_run, service, workers, posted, accepted, lost>>
       /\ UNCHANGED <<settings, limiterVars, unitVars>>

\* _handle_completed_batch_async, lines 90-101: up to `await retrieve_batch`
HandleCompletedBatchStart(b) ==
    /\ handlers[b].scheduled > 0
    /\ active_batch_count' = active_batch_count - 1
    /\ handlers' = [handlers EXCEPT ![b] =
          IF batch_to_custom_ids[b] = NoKey
          THEN [@ EXCEPT !.scheduled = @ - 1]
          ELSE [tasks |-> @.tasks, scheduled |-> @.scheduled - 1, running |-> @.running + 1,
                redis_data |-> batch_to_custom_ids[b]]]
    /\ UNCHANGED <<vision_pending_queue, translate_pending_queue, batch_to_custom_ids,
                   results, dynamic_batch_interval, dynamic_batch_last_run, service,
                   workers, posted, accepted, dropped, lost>>
    /\ UNCHANGED <<settings, limiterVars, unitVars>>

\* _handle_completed_batch_async, lines 103-160: the two files, then the key; a
\* run that raises in the files ends without reaching the delete of line 160
HandleCompletedBatchFinish(b) ==
    /\ handlers[b].running > 0
    /\ LET st == ProcessOutputs(
                    [results |-> results, translate_queue |-> translate_pending_queue,
                     posted |-> posted, raised |-> FALSE],
                    handlers[b].redis_data.job_type,
                    handlers[b].redis_data.custom_id_map, service[b])
       IN /\ results' = st.results
          /\ translate_pending_queue' = st.translate_queue
          /\ posted' = st.posted
          /\ batch_to_custom_ids' =
                IF st.raised THEN batch_to_custom_ids
                ELSE [batch_to_custom_ids EXCEPT ![b] = NoKey]
          /\ service' = [service EXCEPT ![b] =
                IF handlers[b].running = 1 /\ ~st.raised THEN Closed(@) ELSE @]
    /\ handlers' = [handlers EXCEPT ![b] =
          IF @.running = 1
          THEN [NoHandler EXCEPT !.tasks = handlers[b].tasks,
                                 !.scheduled = handlers[b].scheduled]
          ELSE [@ EXCEPT !.running = @ - 1]]
    /\ UNCHANGED <<vision_pending_queue, active_batch_count, dynamic_batch_interval,
                   dynamic_batch_last_run, workers, accepted, dropped, lost>>
    /\ UNCHANGED <<settings, limiterVars, unitVars>>

LotSequences == {<<a>> : a \in Lots} \cup {<<a, b>> : a, b \in Lots}

\* time.time() - last_run as an orchestrator run can find it: below, at and
\* above the steps of _calculate_dynamic_interval
ElapsedValues == {0, 5, 10, 30, 31}

Init ==
    /\ settings \in PipelineSettings
    /\ LimiterEmpty
    /\ PipelineEmpty
    /\ UnitsEmpty

Next ==
    \/ \E lot_ids \in LotSequences : SubmitLotsForProcessing(lot_ids)
    \/ \E w \in Workers, since_write \in ElapsedValues : OrchestratorTask(w, since_write)
    \/ \E w \in Workers : StartBatch(w)
    \/ \E w \in Workers : StartBatchRaises(w)
    \/ \E b \in Batches, status \in TerminalStatuses :
          \E ok \in SUBSET Range(service[b].lines), bad \in SUBSET Range(service[b].lines) :
             ServiceEndsJob(b, status, ok, bad)
    \/ \E failing \in SUBSET Batches : CheckBatchStatus(failing)
    \/ \E b \in Batches : HandleCompletedBatchStart(b)
    \/ \E b \in Batches : HandleCompletedBatchFinish(b)

Spec == Init /\ [][Next]_vars

----------------------------------------------------------------------------
(* ActiveBatchLimiter                                                      *)

ApiKeys == {"k1", "k2"}
BatchIds == {"b1", "b2", "b3"}
Threads == {"t1", "t2"}

NoReply == [op |-> "none", status |-> 0, detail |-> "", retry_after |-> ""]
Idle == [pc |-> "idle"]

\* defaultdict(set): a key that has no entry reads as the empty set
KeySet(bk, k) == IF k \in DOMAIN bk THEN bk[k] ELSE {}

\* self._by_key[api_key]: reading creates the entry
Touch(bk, k) == IF k \in DOMAIN bk THEN bk ELSE bk @@ (k :> {})

GlobalAtLimit_gt(g) == Cardinality(g) > settings.active_batch_limit

\* line 10: len(self._global) >= settings.active_batch_limit
GlobalAtLimit(g) == Cardinality(g) >= settings.active_batch_limit

\* line 13: len(self._by_key[api_key]) >= settings.per_key_batch_limit
KeyAtLimit(bk, k) == Cardinality(KeySet(bk, k)) >= settings.per_key_batch_limit

\* HTTPException(429, headers={"Retry-After": "60"}, detail=...)
Http429(op, detail) ==
    [op |-> op, status |-> 429, detail |-> detail, retry_after |-> "60"]

\* the method returns None
Returned(op) == [op |-> op, status |-> 200, detail |-> "", retry_after |-> ""]

\* an exception other than the HTTPException escapes the method
Raised(op, what) == [op |-> op, status |-> 500, detail |-> what, retry_after |-> ""]

\* line 17: self._by_key[api_key].add(batch_id)
AddKey(bk, k, id) == [Touch(bk, k) EXCEPT ![k] = @ \cup {id}]

DiscardGlobal_keep(g, id) == g

\* line 20: self._global.discard(batch_id)
DiscardGlobal(g, id) == g \ {id}

\* line 21: self._by_key[api_key].discard(batch_id)
DiscardKey(bk, k, id) == [Touch(bk, k) EXCEPT ![k] = @ \ {id}]

\* What the last call of SpecLimiter was, for the claims about sequences of calls:
\*   freed         the scopes ("global" or a caller key) that were at their ceiling
\*                 and for one of whose ids the last call, a finish, was made
\*   readmitted    the last call was a register that succeeded right after such a finish
\*   absent_finish the last call was a finish for an id in neither of the two sets
NoHist == [freed |-> {}, readmitted |-> FALSE, absent_finish |-> FALSE]

\* register(api_key, batch_id), lines 9-17, run without interruption
Register(k, id) ==
    /\ thr = [t \in Threads |-> Idle]
    /\ IF GlobalAtLimit(global_set)
       THEN /\ reply' = Http429("register", "active_batch_limit")
            /\ UNCHANGED <<global_set, by_key>>
       ELSE IF KeyAtLimit(by_key, k)
       THEN /\ reply' = Http429("register", "per_key_batch_limit")
            /\ by_key' = Touch(by_key, k)
            /\ UNCHANGED global_set
       ELSE /\ global_set' = global_set \cup {id}
            /\ by_key' = AddKey(by_key, k, id)
            /\ reply' = Returned("register")
    /\ hist' = [NoHist EXCEPT !.readmitted = hist.freed # {} /\ reply'.status = 200]
    /\ UNCHANGED <<settings, pipelineVars, unitVars, thr>>

\* the same with set.remove, which raises KeyError for an absent element
Finish_remove(k, id) ==
    /\ thr = [t \in Threads |-> Idle]
    /\ IF id \in global_set /\ id \in KeySet(by_key, k)
       THEN /\ global_set' = DiscardGlobal(global_set, id)
            /\ by_key' = DiscardKey(by_key, k, id)
            /\ reply' = Returned("finish")
       ELSE /\ global_set' = IF id \in global_set THEN global_set \ {id} ELSE global_set
            /\ by_key' = IF id \in global_set THEN Touch(by_key, k) ELSE by_key
            /\ reply' = Raised("finish", "KeyError")
    /\ hist' = [NoHist EXCEPT !.absent_finish = id \notin global_set /\ id \notin KeySet(by_key, k)]
    /\ UNCHANGED <<settings, pipelineVars, unitVars, thr>>

\* finish(api_key, batch_id), lines 19-21, run without interruption
Finish(k, id) ==
    /\ thr = [t \in Threads |-> Idle]
    /\ global_set' = DiscardGlobal(global_set, id)
    /\ by_key' = DiscardKey(by_key, k, id)
    /\ reply' = Returned("finish")
    /\ hist' = [freed |-> {s \in {"global"} : GlobalAtLimit(global_set) /\ id \in global_set}
                          \cup {s \in {k} : KeyAtLimit(by_key, k) /\ id \in KeySet(by_key, k)},
                readmitted |-> FALSE,
                absent_finish |-> id \notin global_set /\ id \notin KeySet(by_key, k)]
    /\ UNCHANGED <<settings, pipelineVars, unitVars, thr>>

LimiterInit ==
    /\ settings \in LimiterSettings
    /\ LimiterEmpty
    /\ PipelineEmpty
    /\ UnitsEmpty

LimiterNext ==
    \/ \E k \in ApiKeys, id \in BatchIds : Register(k, id)
    \/ \E k \in ApiKeys, id \in BatchIds : Finish(k, id)

SpecLimiter == LimiterInit /\ [][LimiterNext]_vars

----------------------------------------------------------------------------
(* The same two methods called from concurrent threads: the class keeps    *)
(* its sets in class attributes and takes no lock, so a thread switch can  *)
(* fall between any two statements of register and finish.                 *)

\* line 10
RegCheckGlobal(t, k, id) ==
    /\ thr[t].pc = "idle"
    /\ IF GlobalAtLimit(global_set)
       THEN /\ reply' = Http429("register", "active_batch_limit")
            /\ UNCHANGED thr
       ELSE /\ thr' = [thr EXCEPT ![t] = [pc |-> "line13", api_key |-> k, batch_id |-> id]]
            /\ UNCHANGED reply
    /\ UNCHANGED <<settings, pipelineVars, unitVars, hist, global_set, by_key>>

\* line 13
RegCheckKey(t) ==
    /\ thr[t].pc = "line13"
    /\ by_key' = Touch(by_key, thr[t].api_key)
    /\ IF KeyAtLimit(by_key, thr[t].api_key)
       THEN /\ reply' = Http429("register", "per_key_batch_limit")
            /\ thr' = [thr EXCEPT ![t] = Idle]
       ELSE /\ thr' = [thr EXCEPT ![t].pc = "line16"]
            /\ UNCHANGED reply
    /\ UNCHANGED <<settings, pipelineVars, unitVars, hist, global_set>>

\* line 16
RegAddGlobal(t) ==
    /\ thr[t].pc = "line16"
    /\ global_set' = global_set \cup {thr[t].batch_id}
    /\ thr' = [thr EXCEPT ![t].pc = "line17"]
    /\ UNCHANGED <<settings, pipelineVars, unitVars, hist, by_key, reply>>

\* line 17
RegAddKey(t) ==
    /\ thr[t].pc = "line17"
    /\ by_key' = AddKey(by_key, thr[t].api_key, thr[t].batch_id)
    /\ reply' = Returned("register")
    /\ thr' = [thr EXCEPT ![t] = Idle]
    /\ UNCHANGED <<settings, pipelineVars, unitVars, hist, global_set>>

\* line 20
FinDiscardGlobal(t, k, id) ==
    /\ thr[t].pc = "idle"
    /\ global_set' = DiscardGlobal(global_set, id)
    /\ thr' = [thr EXCEPT ![t] = [pc |-> "line21", api_key |-> k, batch_id |-> id]]
    /\ UNCHANGED <<settings, pipelineVars, unitVars, hist, by_key, reply>>

\* line 21
FinDiscardKey(t) ==
    /\ thr[t].pc = "line21"
    /\ by_key' = DiscardKey(by_key, thr[t].api_key, thr[t].batch_id)
    /\ reply' = Returned("finish")
    /\ thr' = [thr EXCEPT ![t] = Idle]
    /\ UNCHANGED <<settings, pipelineVars, unitVars, hist, global_set>>

ThreadsNext ==
    \/ \E t \in Threads, k \in ApiKeys, id \in BatchIds : RegCheckGlobal(t, k, id)
    \/ \E t \in Threads : RegCheckKey(t)
    \/ \E t \in Threads : RegAddGlobal(t)
    \/ \E t \in Threads : RegAddKey(t)
    \/ \E t \in Threads, k \in ApiKeys, id \in BatchIds : FinDiscardGlobal(t, k, id)
    \/ \E t \in Threads : FinDiscardKey(t)

SpecLimiterThreads == LimiterInit /\ [][ThreadsNext]_vars

----------------------------------------------------------------------------
(* Claims about ActiveBatchLimiter                                         *)

SameKeySets == \A k \in ApiKeys : KeySet(by_key', k) = KeySet(by_key, k)

\* C7. Admission invariant: after any sequence of register and finish calls,
\* calls made concurrently included, the global set has at most
\* active_batch_limit members and every per-key set has at most
\* per_key_batch_limit members. (Holds under SpecLimiter, fails under
\* SpecLimiterThreads: two registers pass the checks of lines 10 and 13 before
\* either reaches the adds of lines 16 and 17.)
C7_AdmissionInvariant ==
    /\ Cardinality(global_set) <= settings.active_batch_limit
    /\ \A k \in ApiKeys : Cardinality(KeySet(by_key, k)) <= settings.per_key_batch_limit

\* C8. register(caller_key, job_id) succeeds only when the global count and the
\* caller's own count are both strictly below their ceilings; otherwise it
\* fails with capacity-exceeded (HTTP 429, Retry-After) and neither the global
\* set nor any per-key set changes.
C8_RegisterContract ==
    [][\A k \in ApiKeys, id \in BatchIds :
        Register(k, id) =>
            IF /\ Cardinality(global_set) < settings.active_batch_limit
               /\ Cardinality(KeySet(by_key, k)) < settings.per_key_batch_limit
            THEN /\ reply'.status = 200
                 /\ global_set' = global_set \cup {id}
                 /\ KeySet(by_key', k) = KeySet(by_key, k) \cup {id}
            ELSE /\ reply'.status = 429
                 /\ reply'.retry_after = "60"
                 /\ global_set' = global_set
                 /\ SameKeySets]_vars

\* a register was refused at the per-key ceiling while the global set had room
C8_Witness ==
    /\ reply = Http429("register", "per_key_batch_limit")
    /\ Cardinality(global_set) < settings.active_batch_limit
    /\ global_set # {}

\* C9. Admission sequence, per scope (the global set, or one caller key's set):
\* once the scope holds limit registered ids, every register in that scope
\* fails with capacity-exceeded and changes nothing; the scope stays full until
\* a finish is called for one of its ids; and the register that follows such a
\* finish succeeds (the other scope having room). The registers counted are
\* those of distinct ids: the sets hold an id once however often it is registered.
C9_AdmissionSequence ==
    [][/\ \A k \in ApiKeys, id \in BatchIds :
            Register(k, id) =>
                /\ (Cardinality(global_set) = settings.active_batch_limit
                    \/ Cardinality(KeySet(by_key, k)) = settings.per_key_batch_limit)
                   => (reply'.status = 429 /\ global_set' = global_set /\ SameKeySets)
                /\ ("global" \in hist.freed /\ ~KeyAtLimit(by_key, k)) => reply'.status = 200
                /\ (k \in hist.freed /\ ~GlobalAtLimit(global_set)) => reply'.status = 200
       /\ (/\ Cardinality(global_set) = settings.active_batch_limit
           /\ Cardinality(global_set') < settings.active_batch_limit)
          => \E k \in ApiKeys, id \in global_set : Finish(k, id)
       /\ \A k \in ApiKeys :
            (/\ Cardinality(KeySet(by_key, k)) = settings.per_key_batch_limit
             /\ Cardinality(KeySet(by_key', k)) < settings.per_key_batch_limit)
            => \E id \in KeySet(by_key, k) : Finish(k, id)]_vars

\* a register succeeded right after a finish freed a full scope
C9_Witness == hist.readmitted

\* C10. finish is idempotent and total: it removes job_id from the global set
\* and from the caller's set and raises nothing; for an id that is in neither
\* set (a second finish, or an id never registered) both sets stay as they are.
C10_FinishIdempotent ==
    [][\A k \in ApiKeys, id \in BatchIds :
        Finish(k, id) =>
            /\ reply'.status = 200
            /\ global_set' = global_set \ {id}
            /\ \A k2 \in ApiKeys :
                 KeySet(by_key', k2) =
                    IF k2 = k THEN KeySet(by_key, k) \ {id} ELSE KeySet(by_key, k2)
            /\ (id \notin global_set /\ id \notin KeySet(by_key, k))
               => (global_set' = global_set /\ SameKeySets)]_vars

\* a finish was called for an absent id while other jobs were registered
C10_Witness == hist.absent_finish /\ global_set # {} /\ reply = Returned("finish")


----------------------------------------------------------------------------
(* Claims about the pipeline                                               *)

Webhook(lot_id) == LotData(lot_id, RequestedLanguages(lot_id)).webhook

\* the lot id a custom_id of a translate job belongs to
LotOfCustomId(custom_id) == <<custom_id[2]>>

IsSuccess(call) == "descriptions" \in DOMAIN call.data.lots[1]
IsError(call) == "error" \in DOMAIN call.data.lots[1]

\* how many times a call of the set was handed to Callback Delivery
RECURSIVE Deliveries(_, _)
Deliveries(bag, calls) ==
    IF calls = {} THEN 0
    ELSE LET call == CHOOSE c \in calls : TRUE
         IN bag[call] + Deliveries(bag, calls \ {call})

SuccessCalls(bag, lot_id) ==
    {call \in DOMAIN bag : call.url = Webhook(lot_id) /\ IsSuccess(call)}

ErrorCalls(bag, lot_id) ==
    {call \in DOMAIN bag : call.url = Webhook(lot_id) /\ IsError(call)}

\* nothing is queued, drained, tracked, or being handled: no later step of the
\* program posts a callback unless new lots are submitted
Quiescent ==
    /\ vision_pending_queue = <<>>
    /\ translate_pending_queue = <<>>
    /\ \A w \in Workers : workers[w].pc = "idle"
    /\ \A b \in Batches : batch_to_custom_ids[b] = NoKey
    /\ \A b \in Batches : handlers[b].scheduled = 0 /\ handlers[b].running = 0

\* C1: every lot accepted into the analysis queue gets a success or an error
\* callback, whatever the terminal status of its jobs and whatever lines they
\* return, unless the key of one of its jobs was deleted after a failed poll.
\* Stated on the runs that have come to rest: once nothing is left to do, every
\* accepted lot that was not dropped that way has a callback (lots whose tasks
\* were drained for a start_batch that raised are left aside as well).
C1_EveryItemGetsCallback ==
    Quiescent =>
        \A lot_id \in accepted \ (dropped \cup lost) :
            SuccessCalls(posted, lot_id) \cup ErrorCalls(posted, lot_id) # {}

\* C2: each lot is handed to Callback Delivery with a success payload at most
\* once, however its translation tasks are spread over jobs.
C2_SuccessAtMostOnce ==
    \A lot_id \in Lots : Deliveries(posted, SuccessCalls(posted, lot_id)) <= 1

\* the languages of the descriptions of a success payload, in order
DescribedLanguages(call) ==
    [i \in DOMAIN call.data.lots[1].descriptions |->
        call.data.lots[1].descriptions[i].language]

\* C3: a lot requesting the languages L gets no success delivery while a language
\* of L has no stored result, and the one delivery it gets describes exactly the
\* languages of L, each once.
C3_CorrelationComplete ==
    \A lot_id \in Lots :
        /\ Deliveries(posted, SuccessCalls(posted, lot_id)) <= 1
        /\ \A call \in SuccessCalls(posted, lot_id) :
              /\ AllPresent(results, lot_id, RequestedLanguages(lot_id))
              /\ Range(DescribedLanguages(call)) = Range(RequestedLanguages(lot_id))
              /\ Len(DescribedLanguages(call)) = Len(RequestedLanguages(lot_id))

\* the tasks a step appended to the translation queue
Appended == SubSeq(translate_pending_queue', Len(translate_pending_queue) + 1,
                   Len(translate_pending_queue'))

\* C4: when the handler processes the successful line of a vision job for a lot
\* requesting the languages L, en among them, it stores the en result itself and
\* appends exactly one translation task for each language of L other than en,
\* each with the analysis text as its source and the lot as submitted, and none
\* for en; nothing else is appended for lots without a successful line.
C4_FanOut ==
    [][\A b \in Batches :
          (HandleCompletedBatchFinish(b) /\ handlers[b].redis_data.job_type = "vision") =>
             /\ Len(translate_pending_queue') >= Len(translate_pending_queue)
             /\ SubSeq(translate_pending_queue', 1, Len(translate_pending_queue))
                   = translate_pending_queue
             /\ \A i \in DOMAIN Appended : <<Appended[i].custom_id[2]>> \in service[b].ok
             /\ \A lot_id \in service[b].ok :
                   LET L == RequestedLanguages(lot_id)
                       units(lang) == {i \in DOMAIN Appended :
                                          Appended[i].custom_id = <<"tr">> \o lot_id \o <<lang>>}
                   IN /\ ResultKey(lot_id, "en") \in DOMAIN results'
                      /\ results'[ResultKey(lot_id, "en")].value = Html(lot_id)
                      /\ units("en") = {}
                      /\ \A lang \in Range(L) \ {"en"} :
                            /\ Cardinality(units(lang)) = 1
                            /\ \A i \in units(lang) :
                                  /\ Appended[i].text = Html(lot_id)
                                  /\ Appended[i].lang = lang
                                  /\ Appended[i].original_lot = LotData(lot_id, L)
                      /\ Cardinality({i \in DOMAIN Appended :
                                         <<Appended[i].custom_id[2]>> = lot_id}) = Len(L) - 1
      ]_vars

\* the vision line of lot A was handled: en is stored, fr and de are queued
C4_Witness ==
    /\ ResultKey(<<"A">>, "en") \in DOMAIN results
    /\ Len(translate_pending_queue) = 2
    /\ translate_pending_queue[1].custom_id = <<"tr", "A", "fr">>
    /\ translate_pending_queue[2].custom_id = <<"tr", "A", "de">>

\* C5: when the error file of a translate job has a line for one lot and its
\* output file a line for another lot, exactly one error callback goes to the
\* webhook of the first for that line, and the result of the second is stored.
C5_ErrorIsolation ==
    [][\A b \in Batches :
          (HandleCompletedBatchFinish(b) /\ handlers[b].redis_data.job_type = "translate") =>
             \A c \in service[b].bad, d \in service[b].ok :
                LotOfCustomId(c) # LotOfCustomId(d) =>
                   /\ Deliveries(posted', ErrorCalls(posted', LotOfCustomId(c)))
                        = Deliveries(posted, ErrorCalls(posted, LotOfCustomId(c))) + 1
                   /\ ResultKey(LotOfCustomId(d), d[3]) \in DOMAIN results'
      ]_vars

\* C6: the jobs submitted to the service and not yet handled to completion are
\* never more than active_batch_limit. Counted are the jobs whose key is stored,
\* which leaves out the jobs whose key a failed poll deleted.
C6_OpenJobCeiling ==
    Cardinality({b \in Batches : batch_to_custom_ids[b] # NoKey}) <= settings.active_batch_limit

\* ---------------------------------------------------------------------------
\* _calculate_dynamic_interval on its own: one call with a depth the queues can
\* have
\* ---------------------------------------------------------------------------

MaxDepth == 1100

\* total_queue_depth is a sum of two llen results
QueueDepths == 0..MaxDepth

IntervalInit ==
    /\ settings \in PipelineSettings
    /\ LimiterEmpty
    /\ PipelineEmpty
    /\ cadence \in [queue_depth : QueueDepths, interval : {0}]
    /\ clock = [now |-> Epoch, last_run |-> 0]
    /\ delivery = [pc |-> "none"]
    /\ submission = [pc |-> "none"]
    /\ correlation = [pc |-> "none"]

\* dynamic_interval = _calculate_dynamic_interval(total_queue_depth)
CalculateInterval ==
    /\ cadence.interval = 0
    /\ cadence' = [cadence EXCEPT !.interval = CalculateDynamicInterval(cadence.queue_depth)]
    /\ UNCHANGED <<settings, limiterVars, pipelineVars, clock, delivery, submission,
                   correlation>>

\* the same depth is measured again on the next tick
NextTick ==
    /\ cadence.interval # 0
    /\ cadence' = [cadence EXCEPT !.interval = 0]
    /\ UNCHANGED <<settings, limiterVars, pipelineVars, clock, delivery, submission,
                   correlation>>

IntervalNext ==
    \/ CalculateInterval
    \/ NextTick

SpecInterval == IntervalInit /\ [][IntervalNext]_vars

\* C11: the interval computed for a depth d is 30 for 0 <= d <= 100, 10 for
\* 101 <= d <= 1000 and 5 for d >= 1001, and no smaller depth gets a shorter
\* interval (monotone non-increasing)
C11_IntervalSteps ==
    cadence.interval # 0 =>
        LET d == cadence.queue_depth
        IN /\ (d <= 100 => cadence.interval = 30)
           /\ (d >= 101 /\ d <= 1000 => cadence.interval = 10)
           /\ (d >= 1001 => cadence.interval = 5)
           /\ \A e \in 0..d : CalculateDynamicInterval(e) >= cadence.interval

\* the interval of a depth on a threshold and of one in the top tier were computed
C11_Witness ==
    /\ cadence.queue_depth \in {100, 1000, 1001}
    /\ cadence.interval # 0

\* ---------------------------------------------------------------------------
\* The orchestrator on the beat schedule, with the clock: every BeatPeriod
\* seconds a run reads time.time() and the stored time of the last dispatch
\* ---------------------------------------------------------------------------

\* beat_schedule: 'schedule': 3.0
BeatPeriod == 3

\* the beats that are followed
MaxTime == 66

\* the interval an orchestrator run computes in the current state
IntervalNow ==
    CalculateDynamicInterval(Len(translate_pending_queue) + Len(vision_pending_queue))

\* the run of the next beat: current_time - last_run is the throttle's input, and
\* a run that passes the throttle stores current_time
BeatOrchestratorTask(w) ==
    /\ clock.now + BeatPeriod <= Epoch + MaxTime
    /\ LET current_time == clock.now + BeatPeriod
           elapsed == current_time - clock.last_run
       IN /\ OrchestratorRun(w, elapsed)
          /\ clock' = [now |-> current_time,
                       last_run |-> IF Throttled(elapsed, IntervalNow)
                                    THEN clock.last_run ELSE current_time]
    /\ UNCHANGED <<settings, limiterVars, cadence, correlation, delivery, submission>>

ThrottleNext ==
    \/ \E lot_ids \in LotSequences : SubmitLotsForProcessing(lot_ids)
    \/ \E w \in Workers : BeatOrchestratorTask(w)
    \/ \E w \in Workers : StartBatch(w)
    \/ \E w \in Workers : StartBatchRaises(w)

SpecThrottle == Init /\ [][ThrottleNext]_vars

\* what a throttled orchestrator run leaves alone: the queues, the jobs being
\* submitted, the last-dispatch timestamp and the open-job bookkeeping
TickIsNoOp ==
    /\ clock'.last_run = clock.last_run
    /\ UNCHANGED <<vision_pending_queue, translate_pending_queue, workers,
                   dynamic_batch_last_run, active_batch_count, batch_to_custom_ids,
                   service>>

\* an orchestrator run that is not throttled records the dispatch time and, below
\* the ceiling and with work queued, drains a queue for a bulk job
TickProceeds(w) ==
    /\ clock'.last_run = clock'.now
    /\ dynamic_batch_last_run' = "set"
    /\ ( /\ active_batch_count < settings.active_batch_limit
         /\ Len(translate_pending_queue) + Len(vision_pending_queue) > 0 )
       => /\ workers'[w].pc = "start_batch"
          /\ Len(translate_pending_queue') + Len(vision_pending_queue')
               < Len(translate_pending_queue) + Len(vision_pending_queue)

\* C12 as stated: an orchestrator run is a no-op unless the time since the last
\* recorded dispatch exceeds the interval computed on that run
C12_ThrottleStrict ==
    [][\A w \in Workers :
          ( /\ BeatOrchestratorTask(w)
            /\ dynamic_batch_last_run = "set"
            /\ ~(clock'.now - clock.last_run > IntervalNow) ) => TickIsNoOp]_vars

\* C12 amended: an orchestrator run proceeds to dispatch if the time since the last
\* recorded dispatch is at least the interval computed on that run, or if no
\* dispatch is recorded; otherwise it drains no queue, submits no bulk job and
\* leaves the last-dispatch timestamp and the open-job bookkeeping unchanged
C12_Throttle ==
    [][\A w \in Workers :
          BeatOrchestratorTask(w) =>
             IF dynamic_batch_last_run = "unset"
                \/ clock'.now - clock.last_run >= IntervalNow
             THEN TickProceeds(w)
             ELSE TickIsNoOp]_vars

\* a run was throttled with work queued, and a run exactly one interval after the
\* first dispatch has dispatched again
C12_Witness ==
    /\ clock.last_run = Epoch + BeatPeriod + 30
    /\ clock.now = clock.last_run
    /\ \E w \in Workers : workers[w].pc = "start_batch"

\* C13: an orchestrator run that drains for a bulk job takes the job from the
\* translation queue only, leaving the analysis queue untouched, whenever the
\* translation queue is non-empty; it drains the analysis queue only when the
\* translation queue is empty
C13_StagePriority ==
    [][\A w \in Workers :
          (workers[w].pc = "idle" /\ workers'[w].pc = "start_batch") =>
             IF Len(translate_pending_queue) > 0
             THEN /\ workers'[w].job_type = "translate"
                  /\ vision_pending_queue' = vision_pending_queue
                  /\ Len(translate_pending_queue') < Len(translate_pending_queue)
                  /\ \A i \in DOMAIN workers'[w].lines : workers'[w].lines[i][1] = "tr"
             ELSE /\ workers'[w].job_type = "vision"
                  /\ translate_pending_queue' = translate_pending_queue
                  /\ Len(vision_pending_queue') < Len(vision_pending_queue)]_vars

\* a translation job was drained while analysis work was waiting
C13_Witness ==
    /\ vision_pending_queue # <<>>
    /\ \E w \in Workers : workers[w].pc = "start_batch" /\ workers[w].job_type = "translate"

\* ---------------------------------------------------------------------------
\* Concurrent orchestrator runs with _process_queue_async taken one lpop at a
\* time
\* ---------------------------------------------------------------------------

\* an lpop that returns the head of the list and leaves it there
Lpop_peek(queue) == [value |-> Head(queue), rest |-> queue]

\* a pop at the other end of the list: the tail is removed and returned
Lpop_tail(queue) ==
    [value |-> queue[Len(queue)], rest |-> SubSeq(queue, 1, Len(queue) - 1)]

\* redis lpop on a list that is not empty: the head is removed and returned in one
\* command
Lpop(queue) == [value |-> Head(queue), rest |-> Tail(queue)]

\* orchestrator_task up to the call of _process_queue_async: throttle, ceiling and
\* the choice of the queue
OrchestratorBegin(w, since_write) ==
    /\ workers[w].pc = "idle"
    /\ Cardinality(SubmittedJobs)
         + Cardinality({v \in Workers : workers[v].pc # "idle"}) < MaxBatches
    /\ LET translate_queue_depth == Len(translate_pending_queue)
           vision_queue_depth == Len(vision_pending_queue)
           total_queue_depth == translate_queue_depth + vision_queue_depth
           dynamic_interval == CalculateDynamicInterval(total_queue_depth)
           elapsed == IF dynamic_batch_last_run = "unset" THEN 31 ELSE since_write
       IN /\ dynamic_batch_interval' = dynamic_interval
          /\ IF Throttled(elapsed, dynamic_interval)
             THEN UNCHANGED <<dynamic_batch_last_run, workers>>
             ELSE /\ dynamic_batch_last_run' = "set"
                  /\ IF \/ active_batch_count >= settings.active_batch_limit
                        \/ total_queue_depth = 0
                     THEN UNCHANGED workers
                     ELSE workers' = [workers EXCEPT ![w] =
                             [pc |-> "lpop",
                              job_type |-> QueueToProcess(translate_queue_depth,
                                                          vision_queue_depth),
                              lines |-> <<>>, custom_id_map |-> EmptyDict]]
    /\ UNCHANGED <<vision_pending_queue, translate_pending_queue, active_batch_count,
                   batch_to_custom_ids, results, service, handlers, posted, accepted,
                   dropped, lost>>
    /\ UNCHANGED <<settings, limiterVars, unitVars>>

\* one turn of the while loop of _process_queue_async, and what follows the loop
\* when it ends
ProcessQueueLpop(w) ==
    /\ workers[w].pc = "lpop"
    /\ LET job_type == workers[w].job_type
           queue == IF job_type = "translate" THEN translate_pending_queue
                    ELSE vision_pending_queue
       IN IF Len(workers[w].lines) < settings.max_lines_per_batch /\ queue # <<>>
          THEN LET popped == Lpop(queue)
                   task == popped.value
                   custom_id == CustomIdOf(job_type, task)
               IN /\ IF job_type = "translate"
                     THEN /\ translate_pending_queue' = popped.rest
                          /\ UNCHANGED vision_pending_queue
                     ELSE /\ vision_pending_queue' = popped.rest
                          /\ UNCHANGED translate_pending_queue
                  /\ workers' = [workers EXCEPT ![w] =
                        [pc |-> "lpop", job_type |-> job_type,
                         lines |-> Append(workers[w].lines, custom_id),
                         custom_id_map |->
                            [c \in DOMAIN workers[w].custom_id_map \cup {custom_id} |->
                                IF c = custom_id THEN task
                                ELSE workers[w].custom_id_map[c]]]]
          ELSE /\ workers' = [workers EXCEPT ![w] =
                     IF workers[w].lines = <<>> THEN WorkerIdle
                     ELSE [workers[w] EXCEPT !.pc = "start_batch"]]
               /\ UNCHANGED <<vision_pending_queue, translate_pending_queue>>
    /\ UNCHANGED <<active_batch_count, batch_to_custom_ids, results,
                   dynamic_batch_interval, dynamic_batch_last_run, service, handlers,
                   posted, accepted, dropped, lost>>
    /\ UNCHANGED <<settings, limiterVars, unitVars>>

DrainNext ==
    \/ \E lot_ids \in LotSequences : SubmitLotsForProcessing(lot_ids)
    \/ \E w \in Workers, since_write \in ElapsedValues : OrchestratorBegin(w, since_write)
    \/ \E w \in Workers : ProcessQueueLpop(w)
    \/ \E w \in Workers : StartBatch(w)
    \/ \E w \in Workers : StartBatchRaises(w)

SpecDrain == Init /\ [][DrainNext]_vars

\* how many times x is in seq
Count(seq, x) == Cardinality({i \in DOMAIN seq : seq[i] = x})

RECURSIVE Total(_)
Total(f) ==
    IF DOMAIN f = {} THEN 0
    ELSE LET x == CHOOSE y \in DOMAIN f : TRUE
         IN f[x] + Total([y \in DOMAIN f \ {x} |-> f[y]])

\* the lines of bulk job submissions, made or being drained, that carry the work
\* unit of lot_id
Submissions(lot_id) ==
    Total([w \in Workers |-> Count(workers[w].lines, lot_id)])
      + Total([b \in Batches |-> Count(service[b].lines, lot_id)])

\* C14: whatever the interleaving of the lpops of concurrent orchestrator runs, an
\* enqueued work unit is a line of at most one bulk job submission, and a unit that
\* was drained is no longer in the queue
C14_DrainedOnce ==
    \A lot_id \in accepted :
        /\ Submissions(lot_id) <= 1
        /\ Submissions(lot_id)
             + Cardinality({i \in DOMAIN vision_pending_queue :
                              vision_pending_queue[i].lot_id = lot_id})
             + (IF lot_id \in lost THEN 1 ELSE 0) = 1

\* two orchestrator runs have drained the same queue together, each holding a unit
C14_Witness ==
    \A w \in Workers : workers[w].pc \in {"lpop", "start_batch"} /\ Len(workers[w].lines) = 1

\* ---------------------------------------------------------------------------
\* The poller
\* ---------------------------------------------------------------------------

\* C15: over any number of poller runs, handle_completed_batch is scheduled at
\* most once for a bulk job, so that completion handling of one job never runs
\* twice
C15_ScheduledOnce ==
    \A b \in Batches :
        /\ handlers[b].tasks <= 1
        /\ handlers[b].scheduled + handlers[b].running <= 1

\* C16: a poller run in which polling some tracked jobs raises removes the
\* bookkeeping of those jobs and takes them off the count that is compared with
\* the admission ceiling
C16_PollErrorFreesCapacity ==
    [][\A failing \in SUBSET Batches :
          (failing # {} /\ CheckBatchStatus(failing)) =>
             /\ \A b \in failing : batch_to_custom_ids'[b] = NoKey
             /\ active_batch_count' = active_batch_count - Cardinality(failing)]_vars

\* ---------------------------------------------------------------------------
\* delivery.post_webhook: one call, against an endpoint that answers each POST
\* in any way
\* ---------------------------------------------------------------------------

\* config.Settings.max_retries
MaxRetries == 5

\* config.Settings.base_delay: float = 2.0
BaseDelay == 2

DeliverySettings == [max_retries : 0..MaxRetries, base_delay : 1..BaseDelay]

\* what client.post does: a response with a status code, or an exception (a
\* transport error, or the timeout of httpx.AsyncClient(timeout=10))
PostOutcomes ==
    [kind : {"response"}, status_code : {199, 200, 204, 299, 300, 404, 500}]
      \cup [kind : {"transport_error", "timeout"}, status_code : {0}]

\* a success test that knows one status code only
IsSuccessStatus_200(status_code) == status_code = 200

\* r.status_code in range(200, 300)
IsSuccessStatus(status_code) == status_code \in 200..299

\* a loop that makes one turn more
AttemptRange_inclusive(max_retries) == 0..max_retries

\* range(settings.max_retries)
AttemptRange(max_retries) == 0..(max_retries - 1)

\* utils.backoff: delay = 2 ** attempt
BackoffDelay(attempt) == 2 ^ attempt

DeliveryInit ==
    /\ settings \in DeliverySettings
    /\ LimiterEmpty
    /\ PipelineEmpty
    /\ cadence = [queue_depth |-> 0, interval |-> 0]
    /\ clock = [now |-> Epoch, last_run |-> 0]
    /\ delivery = [pc |-> "for", attempt |-> 0, posts |-> <<>>, sleeps |-> <<>>,
                   last_status_code |-> 0, last_error |-> "none"]
    /\ submission = [pc |-> "none"]
    /\ correlation = [pc |-> "none"]

\* one turn of the for loop up to `await backoff(attempt)`: the POST and its outcome
PostAttempt(outcome) ==
    /\ delivery.pc = "for"
    /\ delivery.attempt \in AttemptRange(settings.max_retries)
    /\ delivery' =
          IF outcome.kind = "response"
          THEN IF IsSuccessStatus(outcome.status_code)
               THEN [delivery EXCEPT !.pc = "returned", !.posts = Append(@, outcome)]
               ELSE [delivery EXCEPT !.pc = "backoff", !.posts = Append(@, outcome),
                                     !.last_status_code = outcome.status_code,
                                     !.last_error = "text"]
          ELSE [delivery EXCEPT !.pc = "backoff", !.posts = Append(@, outcome),
                                !.last_status_code = 0,
                                !.last_error = outcome.kind]
    /\ UNCHANGED <<settings, limiterVars, pipelineVars, cadence, correlation, clock, submission>>

\* await backoff(attempt), then the next value of the range
Backoff ==
    /\ delivery.pc = "backoff"
    /\ delivery' = [delivery EXCEPT !.pc = "for", !.attempt = @ + 1,
                                    !.sleeps = Append(@, BackoffDelay(delivery.attempt))]
    /\ UNCHANGED <<settings, limiterVars, pipelineVars, cadence, correlation, clock, submission>>

\* the range is exhausted: raise RuntimeError("webhook_delivery_failed to ...")
RaiseDeliveryFailed ==
    /\ delivery.pc = "for"
    /\ delivery.attempt \notin AttemptRange(settings.max_retries)
    /\ delivery' = [delivery EXCEPT !.pc = "raised"]
    /\ UNCHANGED <<settings, limiterVars, pipelineVars, cadence, correlation, clock, submission>>

DeliveryNext ==
    \/ \E outcome \in PostOutcomes : PostAttempt(outcome)
    \/ Backoff
    \/ RaiseDeliveryFailed

SpecDelivery == DeliveryInit /\ [][DeliveryNext]_vars

\* a POST answered with a 2xx response
Delivered(outcome) ==
    /\ outcome.kind = "response"
    /\ outcome.status_code >= 200
    /\ outcome.status_code < 300

FailedPosts == {i \in DOMAIN delivery.posts : ~Delivered(delivery.posts[i])}

MaxLines == 4

\* the bytes of the longest serialized line that is followed
MaxLineSize == 4

\* ceilings of a few bytes and lines, so that a drain can pass each of them alone
SubmissionSettings ==
    [line_size_limit : {2, 3}, file_size_limit : {6, 9}, max_lines_per_batch : {2, 3}]

\* len(line.encode("utf-8")) of each serialized line of a drain that is not empty
SerializedLines ==
    UNION {[1..n -> 1..MaxLineSize] : n \in 1..MaxLines}

RECURSIVE SumSeq(_)
SumSeq(seq) == IF seq = <<>> THEN 0 ELSE Head(seq) + SumSeq(Tail(seq))

\* the temporary file: every line followed by "\n"
JsonlFile(serialized_lines) == [i \in DOMAIN serialized_lines |-> serialized_lines[i] + 1]

\* os.path.getsize
GetSize(file) == SumSeq(file)

\* assert_batch_limits without the test of each line
AssertBatchLimits_total(jsonl_size, line_count, lines_data) ==
    IF line_count > settings.max_lines_per_batch THEN "batch_lines_limit"
    ELSE IF jsonl_size > settings.file_size_limit THEN "batch_size_limit"
    ELSE "ok"

\* assert_batch_limits: the detail of the HTTPException raised, "ok" when it returns
AssertBatchLimits(jsonl_size, line_count, lines_data) ==
    IF line_count > settings.max_lines_per_batch THEN "batch_lines_limit"
    ELSE IF jsonl_size > settings.file_size_limit THEN "batch_size_limit"
    ELSE IF \E i \in DOMAIN lines_data : lines_data[i] > settings.line_size_limit
         THEN "line_size_limit"
    ELSE "ok"

\* nothing written, uploaded or created
NoFile == <<>>

SubmissionInit ==
    /\ settings \in SubmissionSettings
    /\ LimiterEmpty
    /\ PipelineEmpty
    /\ cadence = [queue_depth |-> 0, interval |-> 0]
    /\ clock = [now |-> Epoch, last_run |-> 0]
    /\ delivery = [pc |-> "none"]
    /\ submission \in [pc : {"write"}, serialized_lines : SerializedLines,
                       tmp_file : {NoFile}, size : {0}, uploaded : {NoFile},
                       batch : {NoFile}, error : {"none"}]
    /\ correlation = [pc |-> "none"]

\* lines 41-45: the temporary file is written and measured
WriteTmpFile ==
    /\ submission.pc = "write"
    /\ LET file == JsonlFile(submission.serialized_lines)
       IN submission' = [submission EXCEPT !.pc = "assert", !.tmp_file = file,
                                           !.size = GetSize(file)]
    /\ UNCHANGED <<settings, limiterVars, pipelineVars, cadence, correlation, clock, delivery>>

\* line 46: assert_batch_limits(size, len(lines), serialized_lines)
AssertLimits ==
    /\ submission.pc = "assert"
    /\ LET detail == AssertBatchLimits(submission.size, Len(submission.serialized_lines),
                                       submission.serialized_lines)
       IN submission' = IF detail = "ok"
                        THEN [submission EXCEPT !.pc = "upload"]
                        ELSE [submission EXCEPT !.pc = "finally", !.error = detail]
    /\ UNCHANGED <<settings, limiterVars, pipelineVars, cadence, correlation, clock, delivery>>

\* lines 49-54: file_client.files.create of the temporary file, which can raise
UploadFile(ok) ==
    /\ submission.pc = "upload"
    /\ submission' = IF ok
                     THEN [submission EXCEPT !.pc = "create", !.uploaded = submission.tmp_file]
                     ELSE [submission EXCEPT !.pc = "finally", !.error = "upload_failed"]
    /\ UNCHANGED <<settings, limiterVars, pipelineVars, cadence, correlation, clock, delivery>>

\* lines 57-63: file_client.batches.create on the uploaded file, which can raise
CreateBatch(ok) ==
    /\ submission.pc = "create"
    /\ submission' = IF ok
                     THEN [submission EXCEPT !.pc = "finally", !.batch = submission.uploaded]
                     ELSE [submission EXCEPT !.pc = "finally", !.error = "create_failed"]
    /\ UNCHANGED <<settings, limiterVars, pipelineVars, cadence, correlation, clock, delivery>>

\* lines 64-66: the temporary file is removed; the call returns batch.id or raises
RemoveTmpFile ==
    /\ submission.pc = "finally"
    /\ submission' = [submission EXCEPT
                         !.pc = IF submission.error = "none" THEN "returned" ELSE "raised",
                         !.tmp_file = NoFile]
    /\ UNCHANGED <<settings, limiterVars, pipelineVars, cadence, correlation, clock, delivery>>

SubmissionNext ==
    \/ WriteTmpFile
    \/ AssertLimits
    \/ \E ok \in BOOLEAN : UploadFile(ok)
    \/ \E ok \in BOOLEAN : CreateBatch(ok)
    \/ RemoveTmpFile

SpecStartBatch == SubmissionInit /\ [][SubmissionNext]_vars

\* the serialized submission is over one of the three ceilings
TooLarge ==
    LET lines == submission.serialized_lines
    IN \/ Len(lines) > settings.max_lines_per_batch
       \/ SumSeq(lines) + Len(lines) > settings.file_size_limit
       \/ \E i \in DOMAIN lines : lines[i] > settings.line_size_limit

Lower(lang) == CASE lang = "EN" -> "en" [] lang = "FR" -> "fr" [] OTHER -> lang

\* req.language as it reaches lot_data['priority_language']; "None" for None
PriorityLanguages == {"None", "en", "fr", "FR"}

\* how a direct call of the inference service ends: its text, asyncio.TimeoutError,
\* another exception
DirectOutcomes == {"ok", "timeout", "error"}

\* lot_data of generate_descriptions for a request of one lot
SingleLotData(lot_id, priority_language) ==
    [lot_id |-> lot_id, webhook |-> LotData(lot_id, RequestedLanguages(lot_id)).webhook,
     languages |-> RequestedLanguages(lot_id), priority_language |-> priority_language]

\* lot_data.copy() with 'immediate_languages' set
WithImmediateInfo(lot_data, immediate_languages) ==
    [k \in DOMAIN lot_data \cup {"immediate_languages"} |->
        IF k = "immediate_languages" THEN immediate_languages ELSE lot_data[k]]

\* [lang for lang in all_languages
\*    if lang.lower() not in [l.lower() for l in immediate_languages]]
RemainingLanguages(all_languages, immediate_languages) ==
    SelectSeq(all_languages,
              LAMBDA lang : Lower(lang) \notin {Lower(immediate_languages[i]) :
                                                 i \in DOMAIN immediate_languages})

\* _send_immediate_webhook
SendImmediateWebhook(bag, store, lot_id, lot_data, languages) ==
    IF AllPresent(store, lot_id, languages)
    THEN Delay(bag, lot_data.webhook, SuccessPayload(lot_id, store, languages))
    ELSE bag

\* the error_response of the two except clauses of _process_single_lot_async
SingleLotError(lot_id, outcome) ==
    LET lots == <<[lot_id |-> lot_id,
                   error |-> IF outcome = "timeout"
                             THEN [message |-> "Processing timeout - vision analysis took too long",
                                   code |-> "timeout_error"]
                             ELSE [message |-> "str(e)", code |-> "processing_failed"]]>>
    IN [lots |-> lots, version |-> "1.0.0", signature |-> calc_signature(lots)]

\* process_single_lot_immediately(lot_data): vision and translation are the
\* outcomes of _call_vision_direct and _call_translate_direct
ProcessSingleLot(lot_id, priority_language, vision, translation) ==
    /\ LET lot_data == SingleLotData(lot_id, priority_language)
           html_en == Html(lot_id)
           with_en == Setex(results, ResultKey(lot_id, "en"), 172800, html_en)
           has_priority == priority_language # "None" /\ Lower(priority_language) # "en"
           immediate_languages ==
               IF has_priority THEN <<"en", priority_language>> ELSE <<"en">>
           stored ==
               IF has_priority
               THEN Setex(with_en, ResultKey(lot_id, priority_language), 172800,
                          Translated(html_en, priority_language))
               ELSE with_en
           remaining_languages == RemainingLanguages(lot_data.languages, immediate_languages)
           lot_data_with_immediate_info == WithImmediateInfo(lot_data, immediate_languages)
       IN IF vision # "ok"
          THEN /\ posted' = Delay(posted, lot_data.webhook, SingleLotError(lot_id, vision))
               /\ UNCHANGED <<results, translate_pending_queue>>
          ELSE IF has_priority /\ translation # "ok"
          THEN /\ results' = with_en
               /\ posted' = Delay(posted, lot_data.webhook,
                                  SingleLotError(lot_id, translation))
               /\ UNCHANGED translate_pending_queue
          ELSE /\ results' = stored
               /\ posted' = SendImmediateWebhook(posted, stored, lot_id, lot_data,
                                                 immediate_languages)
               /\ translate_pending_queue' =
                     PushAll(translate_pending_queue,
                             [i \in DOMAIN remaining_languages |->
                                 TranslateTask(lot_id, remaining_languages[i], html_en,
                                               lot_data_with_immediate_info)])
    /\ accepted' = accepted \cup {lot_id}
    /\ UNCHANGED <<vision_pending_queue, active_batch_count, batch_to_custom_ids,
                   dynamic_batch_interval, dynamic_batch_last_run, service, workers,
                   handlers, dropped, lost>>
    /\ UNCHANGED <<settings, limiterVars, unitVars>>

\* the fast path for a lot id that is requested for the first time
ProcessSingleLotImmediately(lot_id, priority_language, vision, translation) ==
    /\ lot_id \notin accepted
    /\ ProcessSingleLot(lot_id, priority_language, vision, translation)

FastPathNext ==
    \/ \E lot_id \in Lots, priority_language \in PriorityLanguages,
          vision, translation \in DirectOutcomes :
          ProcessSingleLotImmediately(lot_id, priority_language, vision, translation)
    \/ \E w \in Workers, since_write \in ElapsedValues : OrchestratorTask(w, since_write)
    \/ \E w \in Workers : StartBatch(w)
    \/ \E w \in Workers : StartBatchRaises(w)
    \/ \E b \in Batches, status \in TerminalStatuses :
          \E ok, bad \in SUBSET Range(service[b].lines) : ServiceEndsJob(b, status, ok, bad)
    \/ \E failing \in SUBSET Batches : CheckBatchStatus(failing)
    \/ \E b \in Batches : HandleCompletedBatchStart(b)
    \/ \E b \in Batches : HandleCompletedBatchFinish(b)

SpecFastPath == Init /\ [][FastPathNext]_vars

\* how many success callbacks handed to Callback Delivery for the lot describe lang
CallbacksWith(lot_id, lang) ==
    Deliveries(posted, {call \in SuccessCalls(posted, lot_id) :
                          lang \in Range(DescribedLanguages(call))})

\* C20: for a lot whose first languages were delivered by the fast path, no later
\* callback describes one of those languages, and over all the success callbacks of
\* the lot each language is described in at most one
C20_NoDuplicateLanguages ==
    \A lot_id \in accepted :
        \A lang \in {"en", "fr", "de", "EN", "FR"} : CallbacksWith(lot_id, lang) <= 1

\* ---------------------------------------------------------------------------
\* Intake as tasks.py has it. The specifications above take push_to_queue to be
\* the rpush helper of test_dynamic_batching.py, the only definition of that name
\* in the repository; the module tasks.py neither defines nor imports it.
\* ---------------------------------------------------------------------------

\* the names bound at the top level of tasks.py: its imports, constants and
\* functions
TasksGlobals ==
    {"celery", "settings", "vision", "translate", "post_webhook", "start_batch",
     "retrieve_batch", "file_client", "openai_client", "redis", "json", "asyncio",
     "parse_response_output", "calc_signature", "LotOut", "DamageDesc", "ResponseOut",
     "track_batch_processing_time", "track_webhook", "update_queue_metrics",
     "track_lot_processing", "redis_client", "VISION_PENDING_QUEUE",
     "TRANSLATE_PENDING_QUEUE", "ACTIVE_BATCH_COUNT", "BATCH_TO_CUSTOM_IDS",
     "DYNAMIC_BATCH_KEY", "DYNAMIC_BATCH_INTERVAL_KEY", "_process_queue_async",
     "_check_batch_status_async", "_handle_completed_batch_async",
     "_send_immediate_webhook", "_send_batch_webhook",
     "_check_and_send_webhook_if_ready", "process_single_lot_immediately",
     "_process_single_lot_async", "_call_vision_direct", "_call_translate_direct",
     "submit_lots_for_processing", "_calculate_dynamic_interval", "orchestrator_task",
     "check_batch_status_task", "get_dynamic_batch_stats", "handle_completed_batch",
     "post_webhook_task"}

\* the for loop of submit_lots_for_processing: the first turn looks the name
\* push_to_queue up in the globals of tasks.py, and a name that is not bound raises
\* NameError before anything is pushed
SubmitLoop(queue, lots) ==
    IF lots = <<>> THEN queue
    ELSE IF "push_to_queue" \in TasksGlobals THEN PushAll(queue, lots)
    ELSE queue

\* the celery task submit_lots_for_processing(lots) run by a worker of tasks.py,
\* after generate_descriptions has answered "accepted"
SubmitLotsTask(lot_ids) ==
    /\ Cardinality(Range(lot_ids)) = Len(lot_ids)
    /\ Range(lot_ids) \cap accepted = {}
    /\ vision_pending_queue' =
          SubmitLoop(vision_pending_queue,
                     [i \in DOMAIN lot_ids |->
                         LotData(lot_ids[i], RequestedLanguages(lot_ids[i]))])
    /\ accepted' = accepted \cup Range(lot_ids)
    /\ UNCHANGED <<translate_pending_queue, active_batch_count, batch_to_custom_ids,
                   results, dynamic_batch_interval, dynamic_batch_last_run, service,
                   workers, handlers, posted, dropped, lost>>
    /\ UNCHANGED <<settings, limiterVars, unitVars>>

IntakeNext ==
    \/ \E lot_ids \in LotSequences : SubmitLotsTask(lot_ids)
    \/ \E lot_id \in Lots, priority_language \in PriorityLanguages,
          vision, translation \in DirectOutcomes :
          ProcessSingleLotImmediately(lot_id, priority_language, vision, translation)
    \/ \E w \in Workers, since_write \in ElapsedValues : OrchestratorTask(w, since_write)
    \/ \E w \in Workers : StartBatch(w)
    \/ \E w \in Workers : StartBatchRaises(w)

SpecIntake == Init /\ [][IntakeNext]_vars

\* C21: a submission of n lots appends exactly n analysis units to the tail of the
\* analysis queue, one for each lot and in the order of the submission
C21_Intake ==
    [][\A lot_ids \in LotSequences :
          SubmitLotsTask(lot_ids) =>
             /\ Len(vision_pending_queue') = Len(vision_pending_queue) + Len(lot_ids)
             /\ SubSeq(vision_pending_queue', 1, Len(vision_pending_queue))
                   = vision_pending_queue
             /\ \A i \in DOMAIN lot_ids :
                   vision_pending_queue'[Len(vision_pending_queue) + i].lot_id
                      = lot_ids[i]]_vars

\* ---------------------------------------------------------------------------
\* Completion handling of jobs whose lines carry any lot id a caller can send,
\* one with a ":" in it included
\* ---------------------------------------------------------------------------

\* lot_id is any non-empty string (schemas.LotIn): "A" and "C:1"
CompletionLots == {<<"A">>, <<"C", "1">>}

CompletionNext ==
    \/ \E lot_id \in CompletionLots :
          ProcessSingleLotImmediately(lot_id, "None", "ok", "ok")
    \/ \E w \in Workers, since_write \in ElapsedValues : OrchestratorTask(w, since_write)
    \/ \E w \in Workers : StartBatch(w)
    \/ \E w \in Workers : StartBatchRaises(w)
    \/ \E b \in Batches, status \in TerminalStatuses :
          \E ok, bad \in SUBSET Range(service[b].lines) : ServiceEndsJob(b, status, ok, bad)
    \/ \E failing \in SUBSET Batches : CheckBatchStatus(failing)
    \/ \E b \in Batches : HandleCompletedBatchStart(b)
    \/ \E b \in Batches : HandleCompletedBatchFinish(b)

SpecCompletion == Init /\ [][CompletionNext]_vars

\* a run of the completion handler of job b ends in this step
HandlerEnds(b) == handlers'[b].running < handlers[b].running

\* C22: whatever the output and error files of a job hold, a run of the completion
\* handler that has read the job's bookkeeping key ends with the key deleted
C22_CompletionCloses ==
    [][\A b \in Batches : HandlerEnds(b) => batch_to_custom_ids'[b] = NoKey]_vars

\* C23: when a line of the output file of a translation job cannot be processed,
\* the run of the handler still stores the result of every other line of the
\* output file
C23_BadItemIsolated ==
    [][\A b \in Batches :
          (HandlerEnds(b) /\ handlers[b].redis_data.job_type = "translate") =>
             \A c \in service[b].ok :
                Len(c) = 3 => ResultKey(<<c[2]>>, c[3]) \in DOMAIN results']_vars

\* ---------------------------------------------------------------------------
\* Requests that repeat a lot id: generate_descriptions accepts any lot_id, one
\* it has seen before included
\* ---------------------------------------------------------------------------

\* the single-lot requests that are followed
MaxRequests == 3

\* a single-lot request, for a lot id that may have been requested before; every
\* request so far has posted its immediate callback
RepeatedSingleLot(lot_id) ==
    /\ Deliveries(posted, DOMAIN posted) < MaxRequests
    /\ ProcessSingleLot(lot_id, "None", "ok", "ok")

RepeatNext ==
    \/ \E lot_id \in Lots : RepeatedSingleLot(lot_id)
    \/ \E w \in Workers, since_write \in ElapsedValues : OrchestratorTask(w, since_write)
    \/ \E w \in Workers : StartBatch(w)
    \/ \E w \in Workers : StartBatchRaises(w)

SpecRepeat == Init /\ [][RepeatNext]_vars

\* C24: the correlation map stored for a bulk job has one entry for every work unit
\* submitted as a line of the job, also when two of the units carry the same
\* identifier
C24_MapCoverage ==
    \A b \in Batches :
        batch_to_custom_ids[b] # NoKey =>
            /\ Range(service[b].lines) = DOMAIN batch_to_custom_ids[b].custom_id_map
            /\ Len(service[b].lines)
                 = Cardinality(DOMAIN batch_to_custom_ids[b].custom_id_map)

\* ---------------------------------------------------------------------------
\* Partial results and callback payloads
\* ---------------------------------------------------------------------------

\* the result keys a run of the completion handler of job b writes: one for each
\* line of the output file
WrittenKeys(b) ==
    {IF handlers[b].redis_data.job_type = "vision" THEN ResultKey(c, "en")
     ELSE ResultKey(<<c[2]>>, c[3]) : c \in service[b].ok}

\* C25: a partial result is written once: no run of the completion handler writes
\* a key result:item:language that is already stored
C25_WriteOnce ==
    [][\A b \in Batches : HandlerEnds(b) => WrittenKeys(b) \cap DOMAIN results = {}]_vars

\* the pipeline with both ways in: lot A in a multi-lot submission, lot B in a
\* single-lot request
CallbackNext ==
    \/ SubmitLotsForProcessing(<<<<"A">>>>)
    \/ \E priority_language \in {"None", "de"}, vision \in DirectOutcomes :
          ProcessSingleLotImmediately(<<"B">>, priority_language, vision, "ok")
    \/ \E w \in Workers, since_write \in ElapsedValues : OrchestratorTask(w, since_write)
    \/ \E w \in Workers : StartBatch(w)
    \/ \E w \in Workers : StartBatchRaises(w)
    \/ \E b \in Batches, status \in TerminalStatuses :
          \E ok, bad \in SUBSET Range(service[b].lines) : ServiceEndsJob(b, status, ok, bad)
    \/ \E failing \in SUBSET Batches : CheckBatchStatus(failing)
    \/ \E b \in Batches : HandleCompletedBatchStart(b)
    \/ \E b \in Batches : HandleCompletedBatchFinish(b)

SpecCallbacks == Init /\ [][CallbackNext]_vars

\* C26: every payload handed to Callback Delivery, success or error, has version
\* 1.0.0 and a signature that is calc_signature of the lots list of that payload
C26_SignedPayloads ==
    \A call \in DOMAIN posted :
        /\ call.data.version = "1.0.0"
        /\ call.data.signature = <<"hmac_sha256", call.data.lots>>

\* a success callback of a lot of a bulk job and an error callback of the fast path
\* have been handed over
C26_Witness ==
    /\ \E call \in DOMAIN posted :
          IsSuccess(call) /\ Len(call.data.lots[1].descriptions) = 3
    /\ \E call \in DOMAIN posted :
          IsError(call) /\ call.data.lots[1].error.code = "timeout_error"

\* ---------------------------------------------------------------------
\* C27: every partial result key result:<lot>:<language> carries the
\* expiry of 172800 seconds, whichever writer stored it (analysis
\* completion, translation completion, the immediate path); no partial
\* result is stored without an expiry.
C27_ResultExpiry ==
    \A key \in DOMAIN results :
        key[1] = "result" => results[key].ttl = 172800

\* analysis completion wrote A's English text, translation completion one
\* of A's translations, and the immediate path both of B's keys
C27_Witness ==
    /\ ResultKey(<<"A">>, "en") \in DOMAIN results
    /\ ResultKey(<<"A">>, "fr") \in DOMAIN results
    /\ ResultKey(<<"B">>, "en") \in DOMAIN results
    /\ ResultKey(<<"B">>, "de") \in DOMAIN results

\* ---------------------------------------------------------------------
\* an orchestrator run that passes the throttle and then returns early: the
\* ceiling is saturated, or both queues are empty
ExitsEarly ==
    \/ active_batch_count >= settings.active_batch_limit
    \/ Len(translate_pending_queue) + Len(vision_pending_queue) = 0

\* C28: an orchestrator run that passes the throttle checks the ceiling, then
\* chooses the stage, then drains and submits, and only then stores the
\* dispatch timestamp; a run that returns because the ceiling is saturated or
\* because both queues are empty leaves the last-dispatch timestamp unchanged
C28_StepOrder ==
    [][\A w \in Workers :
          ( /\ BeatOrchestratorTask(w)
            /\ ~Throttled(clock'.now - clock.last_run, IntervalNow)
            /\ ExitsEarly )
          => /\ clock'.last_run = clock.last_run
             /\ dynamic_batch_last_run' = dynamic_batch_last_run]_vars

\* ---------------------------------------------------------------------
\* orchestrator_task run by two celery workers at once, split at its redis
\* commands: the throttle's read of DYNAMIC_BATCH_KEY (tasks.py l.340) and the
\* write of it (l.347) are two commands with nothing that holds other runs off
\* between them

\* the time that is followed after Epoch
TickHorizon == 33

\* a run between its throttle check and its return
Proceeding(w) == workers[w].pc \in {"passed", "written"}

\* lines 326-344: the interval is computed and stored, time.time() and
\* DYNAMIC_BATCH_KEY are read, and the run returns if it is throttled
TickThrottle(w) ==
    /\ workers[w].pc = "idle"
    /\ Cardinality(SubmittedJobs)
         + Cardinality({v \in Workers : workers[v].pc # "idle"}) < MaxBatches
    /\ LET dynamic_interval == IntervalNow
           current_time == clock.now
           last_run == IF dynamic_batch_last_run = "unset" THEN 0 ELSE clock.last_run
       IN /\ dynamic_batch_interval' = dynamic_interval
          /\ workers' = [workers EXCEPT ![w] =
                IF Throttled(current_time - last_run, dynamic_interval)
                THEN WorkerIdle
                ELSE [pc |-> "passed", job_type |-> "none", lines |-> <<>>,
                      custom_id_map |-> EmptyDict, current_time |-> current_time,
                      dynamic_interval |-> dynamic_interval,
                      translate_queue_depth |-> Len(translate_pending_queue),
                      vision_queue_depth |-> Len(vision_pending_queue)]]
    /\ UNCHANGED <<vision_pending_queue, translate_pending_queue, active_batch_count,
                   batch_to_custom_ids, results, dynamic_batch_last_run, service,
                   handlers, posted, accepted, dropped, lost>>
    /\ UNCHANGED <<settings, limiterVars, unitVars>>

\* line 347: redis_client.setex(DYNAMIC_BATCH_KEY, 300, str(current_time))
TickWrite(w) ==
    /\ workers[w].pc = "passed"
    /\ dynamic_batch_last_run' = "set"
    /\ clock' = [clock EXCEPT !.last_run = workers[w].current_time]
    /\ workers' = [workers EXCEPT ![w].pc = "written"]
    /\ UNCHANGED <<vision_pending_queue, translate_pending_queue, active_batch_count,
                   batch_to_custom_ids, results, dynamic_batch_interval, service,
                   handlers, posted, accepted, dropped, lost>>
    /\ UNCHANGED <<settings, limiterVars, cadence, correlation, delivery, submission>>

\* lines 349-375: the ceiling, the choice of the queue, and _process_queue_async
\* up to its `await start_batch`; the depths are those the run read at its start,
\* the drain takes what the queue holds now
TickDispatch(w) ==
    /\ workers[w].pc = "written"
    /\ LET job_type == QueueToProcess(workers[w].translate_queue_depth,
                                      workers[w].vision_queue_depth)
           queue == IF job_type = "translate" THEN translate_pending_queue
                    ELSE vision_pending_queue
           n == Min(Len(queue), settings.max_lines_per_batch)
           tasks == SubSeq(queue, 1, n)
           rest == SubSeq(queue, n + 1, Len(queue))
       IN IF \/ active_batch_count >= settings.active_batch_limit
             \/ workers[w].translate_queue_depth + workers[w].vision_queue_depth = 0
             \/ tasks = <<>>
          THEN /\ workers' = [workers EXCEPT ![w] = WorkerIdle]
               /\ UNCHANGED <<vision_pending_queue, translate_pending_queue>>
          ELSE /\ IF job_type = "translate"
                  THEN /\ translate_pending_queue' = rest
                       /\ UNCHANGED vision_pending_queue
                  ELSE /\ vision_pending_queue' = rest
                       /\ UNCHANGED translate_pending_queue
               /\ workers' = [workers EXCEPT ![w] =
                     [pc |-> "start_batch", job_type |-> job_type,
                      lines |-> [i \in DOMAIN tasks |-> CustomIdOf(job_type, tasks[i])],
                      custom_id_map |-> MapOf(job_type, tasks)]]
    /\ UNCHANGED <<active_batch_count, batch_to_custom_ids, results,
                   dynamic_batch_interval, dynamic_batch_last_run, service, handlers,
                   posted, accepted, dropped, lost>>
    /\ UNCHANGED <<settings, limiterVars, unitVars>>

\* the beat's period passes
Beat ==
    /\ clock.now + BeatPeriod <= Epoch + TickHorizon
    /\ clock' = [clock EXCEPT !.now = @ + BeatPeriod]
    /\ UNCHANGED <<settings, limiterVars, pipelineVars, cadence, correlation, delivery, submission>>

TicksNext ==
    \/ \E lot_ids \in LotSequences : SubmitLotsForProcessing(lot_ids)
    \/ Beat
    \/ \E w \in Workers : TickThrottle(w)
    \/ \E w \in Workers : TickWrite(w)
    \/ \E w \in Workers : TickDispatch(w)
    \/ \E w \in Workers : StartBatch(w)
    \/ \E w \in Workers : StartBatchRaises(w)

SpecTicks == Init /\ [][TicksNext]_vars

\* C29: the throttle check and the write of the last-dispatch timestamp are one
\* atomic step: of two orchestrator runs under way at once, the later one has
\* passed the throttle only if its time is at least its interval after the time
\* of the earlier one, so within one interval at most one of them proceeds
C29_ThrottleAtomic ==
    \A w, v \in Workers :
        ( /\ w # v
          /\ Proceeding(w) /\ Proceeding(v)
          /\ workers[v].current_time <= workers[w].current_time )
        => workers[w].current_time - workers[v].current_time
              >= workers[w].dynamic_interval

\* ---------------------------------------------------------------------
\* deployments whose max_lines_per_batch is below and at the number of units
\* that can be queued
DrainSettings ==
    { [active_batch_limit |-> 1, per_key_batch_limit |-> 2, max_lines_per_batch |-> n] :
         n \in {1, 2} }

DrainInit ==
    /\ settings \in DrainSettings
    /\ LimiterEmpty
    /\ PipelineEmpty
    /\ UnitsEmpty

SpecBoundedDrain == DrainInit /\ [][DrainNext]_vars

\* the queue a drain under way pops from
DrainedQueue(w) ==
    IF workers[w].job_type = "translate" THEN translate_pending_queue
    ELSE vision_pending_queue

\* C30: a drain pops only the head of the chosen queue, holds at most
\* max_lines_per_batch lines, adds the line of each popped unit behind the
\* lines it holds, and leaves the rest of the queue in its order; a drain that
\* finds the queue empty before it popped anything ends with nothing submitted
\* and no bookkeeping created
C30_DrainFIFO ==
    [][\A w \in Workers :
          ProcessQueueLpop(w) =>
             /\ Len(workers'[w].lines) <= settings.max_lines_per_batch
             /\ IF workers'[w].lines # workers[w].lines
                THEN /\ workers'[w].lines =
                           Append(workers[w].lines,
                                  CustomIdOf(workers[w].job_type, Head(DrainedQueue(w))))
                     /\ DrainedQueue(w)' = Tail(DrainedQueue(w))
                     /\ Len(vision_pending_queue') + Len(translate_pending_queue')
                          = Len(vision_pending_queue) + Len(translate_pending_queue) - 1
                ELSE UNCHANGED <<vision_pending_queue, translate_pending_queue>>
             /\ (workers[w].lines = <<>> /\ DrainedQueue(w) = <<>>)
                  => /\ workers'[w] = WorkerIdle
                     /\ UNCHANGED <<active_batch_count, batch_to_custom_ids, service>>]_vars

\* a drain has stopped at max_lines_per_batch lines and left the unit behind the
\* one it took in the queue
C30_Witness ==
    \E w \in Workers :
        /\ workers[w].pc = "start_batch"
        /\ Len(workers[w].lines) = settings.max_lines_per_batch
        /\ vision_pending_queue # <<>>
        /\ Head(vision_pending_queue).lot_id # workers[w].lines[1]

\* ---------------------------------------------------------------------
\* C31: when start_batch fails after a drain (the run that held drained lines
\* ends and no job was created at the service), the drained units are not
\* pushed back to a queue, the open-job counter is not incremented and no
\* correlation map is stored
C31_SubmissionFailure ==
    [][\A w \in Workers :
          ( /\ workers[w].pc = "start_batch"
            /\ workers'[w].pc = "idle"
            /\ service' = service )
          => /\ UNCHANGED <<vision_pending_queue, translate_pending_queue>>
             /\ active_batch_count' = active_batch_count
             /\ batch_to_custom_ids' = batch_to_custom_ids]_vars

\* a submission has failed: the unit it had drained is in no queue and in no
\* job, nothing is counted and nothing is stored
C31_Witness ==
    /\ lost # {}
    /\ \A lot_id \in lost : Submissions(lot_id) = 0
    /\ active_batch_count = 0
    /\ \A b \in Batches : batch_to_custom_ids[b] = NoKey

\* ---------------------------------------------------------------------
\* the runs of the completion handler that have started for job b, each of which
\* began with the decrement of line 91
Decrements(b) == handlers[b].tasks - handlers[b].scheduled

\* C32: the open-job counter is decremented on entering completion handling of
\* a job, before any output is fetched or processed, and over the whole life of
\* a job it is decremented exactly once: every decrement is the start of a
\* handler run for a job that was not decremented before, and that step stores
\* no result, enqueues nothing and sends no callback
C32_FreedFirstAndOnce ==
    [][active_batch_count' < active_batch_count =>
          \E b \in Batches :
             /\ handlers'[b].scheduled < handlers[b].scheduled
             /\ Decrements(b) = 0
             /\ active_batch_count' = active_batch_count - 1
             /\ UNCHANGED <<results, translate_pending_queue, posted,
                            batch_to_custom_ids>>]_vars

\* ---------------------------------------------------------------------
\* the jobs a poller run finds tracked
Tracked == {b \in Batches : batch_to_custom_ids[b] # NoKey}

\* C33: within one poller run, a transport error or a non-terminal status of
\* one job does not keep any other tracked job that is terminal from being
\* scheduled for completion; a job with a non-terminal status keeps its
\* bookkeeping, has no completion scheduled, and is tracked for the next run
C33_PollerIsolation ==
    [][\A failing \in SUBSET Batches :
          CheckBatchStatus(failing) =>
             \A b \in Tracked \ failing :
                IF service[b].status \in TerminalStatuses
                THEN handlers'[b].scheduled = handlers[b].scheduled + 1
                ELSE /\ batch_to_custom_ids'[b] = batch_to_custom_ids[b]
                     /\ handlers'[b] = handlers[b]
                     /\ b \in Tracked']_vars

\* two jobs were tracked together: the poll of one raised and its key is gone
\* with no completion scheduled, the other was terminal and is scheduled
C33_Witness ==
    \E b1, b2 \in Batches :
        /\ service[b1].status # "none" /\ batch_to_custom_ids[b1] = NoKey
        /\ handlers[b1].tasks = 0
        /\ LotsOf(b1) \subseteq dropped /\ LotsOf(b1) # {}
        /\ handlers[b2].scheduled = 1 /\ handlers[b2].tasks = 1

\* ---------------------------------------------------------------------
\* the lot a result key belongs to
LotOfKey(key) == SubSeq(key, 2, Len(key) - 1)

\* C34: when a run of the completion handler processes the files of an
\* analysis job, each line of the error file whose custom_id is in the job's
\* map hands exactly one error callback (code processing_failed, lot_id the
\* item id) to delivery for the item's webhook, stores no partial result and
\* enqueues no translation unit for the item, and the lines of the output file
\* have the effect they have without the error file
C34_AnalysisErrorLine ==
    [][\A b \in Batches :
          (HandleCompletedBatchFinish(b) /\ handlers[b].redis_data.job_type = "vision") =>
             LET custom_id_map == handlers[b].redis_data.custom_id_map
                 without == ProcessOutputs(
                               [results |-> results,
                                translate_queue |-> translate_pending_queue,
                                posted |-> posted, raised |-> FALSE],
                               "vision", custom_id_map, [service[b] EXCEPT !.bad = {}])
                 appended == SubSeq(translate_pending_queue',
                                    Len(translate_pending_queue) + 1,
                                    Len(translate_pending_queue'))
             IN /\ \A c \in service[b].bad \cap DOMAIN custom_id_map :
                      LET call == [url |-> custom_id_map[c].webhook,
                                   data |-> ErrorPayload(c, "Unknown processing error")]
                      IN /\ call.data.lots[1].lot_id = c
                         /\ call.data.lots[1].error.code = "processing_failed"
                         /\ call \in DOMAIN posted'
                         /\ posted'[call] = Get(posted, call, 0) + 1
                         /\ Deliveries(posted', ErrorCalls(posted', c))
                              = Deliveries(posted, ErrorCalls(posted, c)) + 1
                         /\ \A key \in DOMAIN results' :
                               LotOfKey(key) = c =>
                                  (key \in DOMAIN results /\ results'[key] = results[key])
                         /\ \A i \in DOMAIN appended :
                               appended[i].original_lot.lot_id # c
                /\ results' = without.results
                /\ translate_pending_queue' = without.translate_queue
                /\ \A call \in DOMAIN posted' :
                      IsSuccess(call) =>
                         (call \in DOMAIN without.posted
                            /\ posted'[call] = without.posted[call])]_vars

\* an analysis job of two lots was handled whose error file had the line of A
\* and whose output file the line of B: A got its error callback and nothing
\* else, B's English text is stored and its translation is queued
C34_Witness ==
    /\ Deliveries(posted, ErrorCalls(posted, <<"A">>)) = 1
    /\ \A key \in DOMAIN results : LotOfKey(key) # <<"A">>
    /\ ResultKey(<<"B">>, "en") \in DOMAIN results
    /\ \E i \in DOMAIN translate_pending_queue :
          translate_pending_queue[i].custom_id = <<"tr", "B", "de">>
    /\ \A i \in DOMAIN translate_pending_queue :
          translate_pending_queue[i].original_lot.lot_id # <<"A">>

\* ---------------------------------------------------------------------
\* C35: the delay after the n-th failed attempt, n counted from 0, is
\* base_delay * 2^n, and a delay is inserted only between attempts: a call that
\* gave up has slept once less than it has posted
C35_BackoffSchedule ==
    /\ \A i \in DOMAIN delivery.sleeps :
          delivery.sleeps[i] = settings.base_delay * 2 ^ (i - 1)
    /\ (delivery.pc = "raised" /\ delivery.posts # <<>>)
          => Len(delivery.sleeps) = Len(delivery.posts) - 1

\* ---------------------------------------------------------------------
\* The translation custom_id on its own: built at fan-out for one lot id and
\* one language, split by the completion handler. A string is the sequence of
\* the parts that split(":") gives, so a lot id with k separators has k + 1
\* parts.
\* ---------------------------------------------------------------------

\* the separators a lot id can have
MaxSeparators == 2

LotIdParts == {"A", "B", ""}

\* LotIn.lot_id: constr(strip_whitespace=True, min_length=1), any text that is
\* not empty
LotIds ==
    UNION {[1..n -> LotIdParts] : n \in 1..(MaxSeparators + 1)} \ {<<"">>}

\* the languages of a request other than 'en'
TargetLanguages == {"fr", "de", "es"}

\* tasks.py l.116 and l.261, translate.py l.31: f"tr:{lot_id}:{lang}"
BuildCustomId(lot_id, lang) == <<"tr">> \o lot_id \o <<lang>>

\* tasks.py l.123: _, lot_id, lang = custom_id.split(":")
SplitCustomId(custom_id) ==
    IF Unpacks(custom_id)
    THEN [pc |-> "split", lot_id |-> <<custom_id[2]>>, lang |-> custom_id[3]]
    ELSE [pc |-> "ValueError", lot_id |-> <<>>, lang |-> "none"]

RoundTripInit ==
    /\ settings \in PipelineSettings
    /\ LimiterEmpty
    /\ PipelineEmpty
    /\ cadence = [queue_depth |-> 0, interval |-> 0]
    /\ clock = [now |-> Epoch, last_run |-> 0]
    /\ delivery = [pc |-> "none"]
    /\ submission = [pc |-> "none"]
    /\ correlation \in [pc : {"fan_out"}, lot_id : LotIds, lang : TargetLanguages,
                        custom_id : {<<>>}, split : {[pc |-> "none"]}]

\* the fan-out builds the custom_id of the unit
FanOutCustomId ==
    /\ correlation.pc = "fan_out"
    /\ correlation' = [correlation EXCEPT
          !.pc = "queued",
          !.custom_id = BuildCustomId(correlation.lot_id, correlation.lang)]
    /\ UNCHANGED <<settings, limiterVars, pipelineVars, cadence, clock, delivery,
                   submission>>

\* the completion handler takes the custom_id of the output line apart
HandlerSplitsCustomId ==
    /\ correlation.pc = "queued"
    /\ correlation' = [correlation EXCEPT
          !.pc = "handled", !.split = SplitCustomId(correlation.custom_id)]
    /\ UNCHANGED <<settings, limiterVars, pipelineVars, cadence, clock, delivery,
                   submission>>

RoundTripNext ==
    \/ FanOutCustomId
    \/ HandlerSplitsCustomId

SpecRoundTrip == RoundTripInit /\ [][RoundTripNext]_vars

\* C36: for every lot id and language, lot ids with the separator included,
\* the custom_id built at fan-out is taken apart by the completion handler into
\* the same lot id and the same language
C36_RoundTrip ==
    correlation.pc = "handled" =>
        /\ correlation.split.pc = "split"
        /\ correlation.split.lot_id = correlation.lot_id
        /\ correlation.split.lang = correlation.lang

\* ---------------------------------------------------------------------
\* no submission and no completion is under way
NothingInProgress ==
    /\ \A w \in Workers : workers[w].pc = "idle"
    /\ \A b \in Batches : handlers[b].scheduled = 0 /\ handlers[b].running = 0

\* C37: the open-job counter is never negative, and whenever no submission and
\* no completion is under way it is the number of stored batch_to_custom_ids
\* keys
C37_CounterConsistency ==
    /\ active_batch_count >= 0
    /\ NothingInProgress => active_batch_count = Cardinality(Tracked)

\* ---------------------------------------------------------------------
\* C38: a run of handle_completed_batch for a job whose bookkeeping key is
\* absent changes no shared state: the open-job counter, both queues and the
\* partial results are unchanged and no callback is sent
C38_UntrackedIsNoOp ==
    [][\A b \in Batches :
          (HandleCompletedBatchStart(b) /\ batch_to_custom_ids[b] = NoKey) =>
             UNCHANGED <<active_batch_count, vision_pending_queue,
                         translate_pending_queue, results, posted,
                         batch_to_custom_ids>>]_vars

\* ---------------------------------------------------------------------
\* units wait in a queue while no job is being submitted, tracked or handled:
\* nothing but an orchestrator run can move them, and nothing but a completion
\* can lower the open-job counter
UnitsAtRest ==
    /\ Len(vision_pending_queue) + Len(translate_pending_queue) > 0
    /\ NothingInProgress
    /\ Tracked = {}

\* C39: every unit of the analysis queue and every unit of the translation
\* queue is eventually drained into a bulk job. Stated on the states at rest:
\* when units wait and no job is open, the ceiling leaves room for a dispatch;
\* otherwise every later orchestrator run returns at the ceiling check, no
\* completion is left that could lower the counter, and the units wait for
\* ever however fair the scheduling is
C39_NoStarvation ==
    UnitsAtRest => active_batch_count < settings.active_batch_limit

\* ---------------------------------------------------------------------
\* C40: after any sequence of register and finish calls with any caller keys
\* and job ids (a finish with another key than the one of the register, one job
\* id registered under two keys), the global set is the union of the per-key
\* sets
C40_SetConsistency ==
    global_set = UNION {KeySet(by_key, k) : k \in ApiKeys}

====
